---- MODULE Spec2Model ----
(***************************************************************************)
(* Book service (books + ratings) and loan service of the Persistent Book  *)
(* Club, modelled at the granularity of single MongoDB operations: every   *)
(* pymongo call of a request handler is one atomic step, and a handler is  *)
(* the sequence of its steps, followed through pc.                         *)
(***************************************************************************)
EXTENDS Integers, Sequences, FiniteSets, Bags, TLC

\* ------------------------------------------------------------------ bounds
\* Cap on the persisted counter: no creation request starts once
\* highest_object_id has reached it.
MaxId == 2
\* Cap on the identifiers of loans.
MaxLoanId == 3
\* The number of books of the catalogs GET /top is asked on.
MaxTopBooks == 4

\* Cap on the length of one rating's value list.
MaxValues == 3

\* ------------------------------------------------------------ input domains
\* Python's None, where a document (a dict) may stand.
None == [none |-> TRUE]
\* A validation that returns no error.
NoError == ""

\* The workers of the book service and those of the loan service.
Procs == {"w1", "w2"}
LoanProcs == {"l1", "l2"}
\* The process of the in-memory service (CSE_hw1).
ClubProc == "h1"
Workers == Procs \cup LoanProcs \cup {ClubProc}
\* The single worker of each service in the sequential specifications.
SeqProc == "w1"
SeqLoanProc == "l1"

GENRES == {"Fiction", "Children", "Biography", "Science", "Science Fiction", "Fantasy", "Other"}

Titles == {"Dune"}
ISBNs == {"9780134685991", "9780441013593"}
BookPayloads == {[title |-> t, ISBN |-> i, genre |-> "Fiction"] : t \in Titles, i \in ISBNs}

\* requests.get of a lookup raised (no connection), and the Gemini call of the
\* in-memory service gave a response without parts (get_book_summary is None).
Unavailable == [raised |-> "ConnectionError"]
NoSummary == [summary |-> "None"]

\* What the Google Books lookup yields for an ISBN when it answers.
BookDetails(isbn) == [authors |-> "Frank Herbert", publisher |-> "Ace", publishedDate |-> "1965"]

\* Rating payloads of POST /ratings/{id}/values.
RatingPayloads == {[value |-> 4], [value |-> 5]}

\* The 'value' of a JSON payload as get_json() hands it to the handler. An
\* integer stands for itself. JsonTrue is the JSON true, the Python True: a
\* bool, which is an instance of int and computes as 1. JsonOther is a value
\* that is no instance of int (a string, a float).
JsonTrue == 1001
JsonOther == 1002
IsInstanceInt(v) == v # JsonOther
IntValueOf(v) == IF v = JsonTrue THEN 1 ELSE v

\* Payloads of every kind the validation tells apart: integers in and out of
\* the range, true, a value of another type, a second field, another field,
\* and the empty object.
ValuePayloads ==
    {[value |-> v] : v \in {0, 1, 5, 6, JsonTrue, JsonOther}}
    \cup {[value |-> 3, comment |-> "good"], [rating |-> 3], <<>>}

\* Payloads of PUT /books/{id}: another title, any of the ISBNs.
PutTitles == {"Emma"}
PutPayloads == {[title |-> t, ISBN |-> i, genre |-> "Fiction", authors |-> "Jane Austen",
                 publisher |-> "Penguin", publishedDate |-> "1815"] :
                    t \in PutTitles, i \in ISBNs}

\* Loan payloads of POST /loans.
\* The ISBNs of the catalog's payloads, two more of 13 characters, one of 3 and
\* one of 13 characters that holds a second query parameter;
\* a leap day, a day no month has, and a date in another format; and a payload
\* without its loanDate.
Members == {"Ann"}
LoanISBNs == ISBNs \cup {"9780262033848", "9780131103627", "978", "9780&genre=No"}
LoanDates == {"2024-02-29", "2023-02-30", "29/02/2024"}
LoanPayloads ==
    {[memberName |-> m, ISBN |-> i, loanDate |-> d] :
        m \in Members, i \in LoanISBNs, d \in LoanDates}
    \cup {[memberName |-> m, ISBN |-> i] : m \in Members, i \in LoanISBNs}

\* Identifiers as they appear in a URL path ("1", "2", ...).
PathIds == {ToString(n) : n \in 1..MaxId}
LoanPathIds == {ToString(n) : n \in 1..MaxLoanId}
TopPathIds == {ToString(n) : n \in 1..MaxTopBooks}

\* ---------------------------------------------------------------- variables
VARIABLES
    book_collection,    \* database["books"]: the counter document and the book documents
    rating_collection,  \* database["ratings"]
    loan_collection,    \* database["loans"]: the counter document and the loan documents
    book_club,          \* the BookClub instance of the in-memory service, None before it runs
    overlapped,         \* history: two loan-creation requests were in flight at once
    pc,                 \* pc[p]: where worker p stands in its handler
    req,                \* req[p]: the request p is handling (or handled last)
    loc,                \* loc[p]: the handler's local variables
    resp,               \* resp[p]: the response p returned last
    allocated,          \* history: per store, the values increment_id returned, in order
    appended            \* history: bag of <<id, value>> of the appends to a stored rating that answered 201

vars == <<book_collection, rating_collection, loan_collection, book_club, overlapped, pc, req, loc, resp, allocated, appended>>

\* ------------------------------------------------------------ conversions
\* str(n) of a non-negative integer.
Str(n) == ToString(n)

\* int(s) of a decimal string.
IntOf(s) == CHOOSE n \in (0 - 1)..(MaxId + MaxLoanId + MaxTopBooks) : ToString(n) = s

\* sum(values)
RECURSIVE Sum(_)
Sum(values) == IF values = <<>> THEN 0 ELSE IntValueOf(Head(values)) + Sum(Tail(values))

RECURSIVE Gcd(_, _)
Gcd(a, b) == IF b = 0 THEN a ELSE Gcd(b, a % b)

\* The quotient s / n as a reduced fraction: two quotients are equal as Python
\* floats exactly when their reduced fractions are equal (the values are small).
Quotient(s, n) == [num |-> s \div Gcd(s, n), den |-> n \div Gcd(s, n)]

\* The integer 0 a fresh rating's average holds (0 == 0.0 in Python).
Zero == [num |-> 0, den |-> 1]

\* ------------------------------------------------------------ MongoDB
\* An equality filter matches a document that has every field of the filter
\* with the same value.
Matches(doc, filter) == \A k \in DOMAIN filter : k \in DOMAIN doc /\ doc[k] = filter[k]

\* Index of the first document matching the filter, 0 when none does.
FirstMatch(coll, filter) ==
    IF \E i \in 1..Len(coll) : Matches(coll[i], filter)
    THEN CHOOSE i \in 1..Len(coll) :
            /\ Matches(coll[i], filter)
            /\ \A j \in 1..(i - 1) : ~Matches(coll[j], filter)
    ELSE 0

\* Projection {"_id": 0}: the document without its _id.
DropId(doc) == [k \in (DOMAIN doc) \ {"_id"} |-> doc[k]]

\* collection.find_one(filter)
find_one(coll, filter) ==
    IF FirstMatch(coll, filter) = 0 THEN None ELSE coll[FirstMatch(coll, filter)]

\* collection.insert_one(doc) succeeds only when no document has doc's _id
\* (otherwise pymongo raises DuplicateKeyError and nothing is written).
CanInsertAny(coll, doc) == TRUE

CanInsert(coll, doc) == FirstMatch(coll, [_id |-> doc._id]) = 0

insert_one(coll, doc) == Append(coll, doc)

\* collection.update_one(filter, {"$set": fields}): the first match gets the fields.
update_one_set(coll, filter, fields) ==
    IF FirstMatch(coll, filter) = 0 THEN coll
    ELSE [coll EXCEPT ![FirstMatch(coll, filter)] =
            [k \in (DOMAIN @) \cup (DOMAIN fields) |->
                IF k \in DOMAIN fields THEN fields[k] ELSE @[k]]]

\* collection.update_one(filter, {"$push": {"values": v}})
update_one_push(coll, filter, v) ==
    IF FirstMatch(coll, filter) = 0 THEN coll
    ELSE [coll EXCEPT ![FirstMatch(coll, filter)].values = Append(@, v)]

\* Mutant of update_one_upsert: "$set" in place of "$setOnInsert", which also
\* overwrites the fields of a document that matches.
update_one_upsert_set(coll, filter, fields) ==
    IF FirstMatch(coll, filter) # 0 THEN update_one_set(coll, filter, fields)
    ELSE Append(coll, [k \in (DOMAIN filter) \cup (DOMAIN fields) |->
                        IF k \in DOMAIN fields THEN fields[k] ELSE filter[k]])

\* collection.update_one(filter, {"$setOnInsert": fields}, upsert=True): a
\* matching document is left as it is; without one, filter + fields is inserted.
update_one_upsert(coll, filter, fields) ==
    IF FirstMatch(coll, filter) # 0 THEN coll
    ELSE Append(coll, [k \in (DOMAIN filter) \cup (DOMAIN fields) |->
                        IF k \in DOMAIN fields THEN fields[k] ELSE filter[k]])

\* collection.delete_one(filter): the first match is removed.
delete_one(coll, filter) ==
    IF FirstMatch(coll, filter) = 0 THEN coll
    ELSE [i \in 1..(Len(coll) - 1) |->
            IF i < FirstMatch(coll, filter) THEN coll[i] ELSE coll[i + 1]]

\* The counter document's filter.
current_key_doc_identifier == [_id |-> 0]

\* highest_object_id as persisted (None while the counter document is absent).
HighestObjectId(coll) ==
    IF find_one(coll, current_key_doc_identifier) = None THEN None
    ELSE find_one(coll, current_key_doc_identifier).highest_object_id

\* ------------------------------------------------------------ BookClub reads
\* get_books(): find({"_id": {"$gt": 0}}, {"_id": 0})
IsBookDoc(doc) == doc._id > 0
Projected(coll) == [i \in 1..Len(coll) |-> DropId(coll[i])]
get_books(books) == Projected(SelectSeq(books, IsBookDoc))

\* Mutant of get_book: the lookup without the test int(book_id) > 0.
get_book_any_id(books, book_id) ==
    IF find_one(books, [_id |-> IntOf(book_id)]) = None THEN None
    ELSE DropId(find_one(books, [_id |-> IntOf(book_id)]))

\* get_book(book_id)
get_book(books, book_id) ==
    IF IntOf(book_id) > 0
    THEN (IF find_one(books, [_id |-> IntOf(book_id)]) = None THEN None
          ELSE DropId(find_one(books, [_id |-> IntOf(book_id)])))
    ELSE None

\* get_book_rating(book_id)
get_book_rating(ratings, book_id) ==
    IF find_one(ratings, [_id |-> IntOf(book_id)]) = None THEN None
    ELSE DropId(find_one(ratings, [_id |-> IntOf(book_id)]))

\* validate_book_addition: the error it returns, or NoError for None.
validate_book_addition(books, book_payload) ==
    IF DOMAIN book_payload # {"title", "ISBN", "genre"}
    THEN "Unprocessable content - check validity of fields"
    ELSE IF Len(book_payload.ISBN) # 13 THEN "Invalid ISBN"
    ELSE IF book_payload.genre \notin GENRES THEN "Invalid genre"
    ELSE IF \E i \in 1..Len(get_books(books)) : get_books(books)[i].ISBN = book_payload.ISBN
    THEN "A book with this ISBN already exists"
    ELSE NoError

\* validate_rating_for_a_book: the error it returns, or NoError for None.
validate_rating_for_a_book(rating_payload) ==
    IF \/ DOMAIN rating_payload # {"value"}
       \/ ~IsInstanceInt(rating_payload.value)
       \/ IntValueOf(rating_payload.value) < 1
       \/ IntValueOf(rating_payload.value) > 5
    THEN "Invalid rating value"
    ELSE NoError

\* ------------------------------------------------------------ workers
NoReq == [op |-> "none"]
NoResp == [status |-> 0]
NoTop == [books |-> <<>>, eligible_books |-> <<>>, keys |-> <<>>, sorted_books |-> <<>>,
          top_books |-> <<>>, top_rate_counter |-> 0, current_average |-> Zero]
NoLoc == [current_key |-> 0, book |-> None, rating |-> None, new_average |-> Zero, matched |-> 0,
          book_details |-> None, top |-> NoTop]

Idle(p) == pc[p] = "idle"
Quiet(p) == pc[p] \in {"idle", "down"}
Quiescent == \A p \in Workers : Quiet(p)

\* A handler returns: the response is recorded and the worker is idle again.
Respond(p, r) ==
    /\ pc' = [pc EXCEPT ![p] = "idle"]
    /\ resp' = [resp EXCEPT ![p] = r]
    /\ loc' = [loc EXCEPT ![p] = [NoLoc EXCEPT !.matched = loc[p].matched]]

\* An unhandled exception: Flask answers 500.
Crash(p, exc) == Respond(p, [status |-> 500, error |-> exc])

Goto(p, label) ==
    /\ pc' = [pc EXCEPT ![p] = label]
    /\ UNCHANGED resp

Begin(p, r) ==
    /\ Idle(p)
    /\ req' = [req EXCEPT ![p] = r]

\* ------------------------------------------------------------ service start
\* Module level: if book_collection.find_one({"_id": 0}) is None: ...
StartupFind(p) ==
    /\ pc[p] = "down"
    /\ IF find_one(book_collection, current_key_doc_identifier) = None
       THEN pc' = [pc EXCEPT ![p] = "startup_upsert"]
       ELSE pc' = [pc EXCEPT ![p] = "idle"]
    /\ UNCHANGED <<overlapped, book_club, loan_collection, book_collection, rating_collection, req, loc, resp, allocated, appended>>

\* ... book_collection.update_one({"_id": 0}, {"$setOnInsert": {"highest_object_id": 0}}, upsert=True);
\* matched is the update's matched_count.
StartupUpsert(p) ==
    /\ pc[p] = "startup_upsert"
    /\ book_collection' = update_one_upsert(book_collection, current_key_doc_identifier,
                                            [highest_object_id |-> 0])
    /\ loc' = [loc EXCEPT ![p].matched =
                IF FirstMatch(book_collection, current_key_doc_identifier) = 0 THEN 0 ELSE 1]
    /\ pc' = [pc EXCEPT ![p] = "idle"]
    /\ UNCHANGED <<overlapped, book_club, loan_collection, rating_collection, req, resp, allocated, appended>>

\* The instance of an idle worker stops; it starts again through StartupFind.
Restart(p) ==
    /\ Idle(p)
    /\ pc' = [pc EXCEPT ![p] = "down"]
    /\ req' = [req EXCEPT ![p] = NoReq]
    /\ resp' = [resp EXCEPT ![p] = NoResp]
    /\ loc' = [loc EXCEPT ![p] = NoLoc]
    /\ UNCHANGED <<overlapped, book_club, loan_collection, book_collection, rating_collection, allocated, appended>>

\* ------------------------------------------------------------ POST /books
\* Books.post up to the call of increment_id: validation, then the lookup of
\* the book's details, which answers (book_details) or does not (None).
\* Mutant of BooksPost: the handler goes on to increment_id whatever
\* get_book_details returned.
BooksPostNoCheck(p, book_payload, book_details) ==
    /\ Begin(p, [op |-> "post_book", payload |-> book_payload])
    /\ HighestObjectId(book_collection) < MaxId
    /\ IF validate_book_addition(book_collection, book_payload) # NoError
       THEN /\ pc' = [pc EXCEPT ![p] = "idle"]
            /\ resp' = [resp EXCEPT ![p] =
                    [status |-> 422, error |-> validate_book_addition(book_collection, book_payload)]]
            /\ loc' = [loc EXCEPT ![p] = NoLoc]
       ELSE IF book_details = Unavailable
       THEN /\ pc' = [pc EXCEPT ![p] = "idle"]
            /\ resp' = [resp EXCEPT ![p] = [status |-> 500, error |-> Unavailable.raised]]
            /\ loc' = [loc EXCEPT ![p] = NoLoc]
       ELSE /\ pc' = [pc EXCEPT ![p] = "increment_id_find"]
            /\ resp' = [resp EXCEPT ![p] = NoResp]
            /\ loc' = [loc EXCEPT ![p] = [NoLoc EXCEPT !.book_details = book_details]]
    /\ UNCHANGED <<overlapped, book_club, loan_collection, book_collection, rating_collection, allocated, appended>>

BooksPost(p, book_payload, book_details) ==
    /\ Begin(p, [op |-> "post_book", payload |-> book_payload])
    /\ HighestObjectId(book_collection) < MaxId
    /\ IF validate_book_addition(book_collection, book_payload) # NoError
       THEN /\ pc' = [pc EXCEPT ![p] = "idle"]
            /\ resp' = [resp EXCEPT ![p] =
                    [status |-> 422, error |-> validate_book_addition(book_collection, book_payload)]]
            /\ loc' = [loc EXCEPT ![p] = NoLoc]
       ELSE IF book_details = Unavailable
       THEN /\ pc' = [pc EXCEPT ![p] = "idle"]
            /\ resp' = [resp EXCEPT ![p] = [status |-> 500, error |-> Unavailable.raised]]
            /\ loc' = [loc EXCEPT ![p] = NoLoc]
       ELSE IF book_details = None
       THEN /\ pc' = [pc EXCEPT ![p] = "idle"]
            /\ resp' = [resp EXCEPT ![p] =
                    [status |-> 500, error |-> "Unable to connect to Google Books"]]
            /\ loc' = [loc EXCEPT ![p] = NoLoc]
       ELSE /\ pc' = [pc EXCEPT ![p] = "increment_id_find"]
            /\ resp' = [resp EXCEPT ![p] = NoResp]
            /\ loc' = [loc EXCEPT ![p] = [NoLoc EXCEPT !.book_details = book_details]]
    /\ UNCHANGED <<overlapped, book_club, loan_collection, book_collection, rating_collection, allocated, appended>>

\* Mutant of NextKey: one more than the highest _id stored in the collection.
NextKeyFromStoredIds(coll) ==
    (CHOOSE m \in {coll[i]._id : i \in 1..Len(coll)} :
        \A i \in 1..Len(coll) : coll[i]._id <= m) + 1

\* increment_id: current_key = find_one({"_id": 0})["highest_object_id"] + 1
NextKey(coll) == HighestObjectId(coll) + 1

IncrementIdFind(p) ==
    /\ pc[p] = "increment_id_find"
    /\ loc' = [loc EXCEPT ![p].current_key = NextKey(book_collection)]
    /\ Goto(p, "increment_id_update")
    /\ UNCHANGED <<overlapped, book_club, loan_collection, book_collection, rating_collection, req, allocated, appended>>

\* increment_id: update_one({"_id": 0}, {"$set": {"highest_object_id": current_key}});
\* return current_key
IncrementIdUpdate(p) ==
    /\ pc[p] = "increment_id_update"
    /\ book_collection' = update_one_set(book_collection, current_key_doc_identifier,
                                         [highest_object_id |-> loc[p].current_key])
    /\ allocated' = [allocated EXCEPT !.books = Append(@, loc[p].current_key)]
    /\ Goto(p, "add_book")
    /\ UNCHANGED <<overlapped, book_club, loan_collection, rating_collection, req, loc, appended>>

\* The book document Books.post builds.
NewBook(book_id, book_payload) ==
    [_id |-> book_id, id |-> Str(book_id),
     title |-> book_payload.title, ISBN |-> book_payload.ISBN, genre |-> book_payload.genre,
     authors |-> BookDetails(book_payload.ISBN).authors,
     publisher |-> BookDetails(book_payload.ISBN).publisher,
     publishedDate |-> BookDetails(book_payload.ISBN).publishedDate]

\* The rating document Books.post builds.
NewRating(book_id, title) ==
    [_id |-> book_id, id |-> Str(book_id), values |-> <<>>, average |-> Zero, title |-> title]

\* book_club.add_book(book)
AddBook(p) ==
    /\ pc[p] = "add_book"
    /\ IF CanInsert(book_collection, NewBook(loc[p].current_key, req[p].payload))
       THEN /\ book_collection' = insert_one(book_collection,
                                             NewBook(loc[p].current_key, req[p].payload))
            /\ Goto(p, "add_book_rating")
            /\ UNCHANGED loc
       ELSE /\ Crash(p, "DuplicateKeyError")
            /\ UNCHANGED book_collection
    /\ UNCHANGED <<overlapped, book_club, loan_collection, rating_collection, req, allocated, appended>>

\* book_club.add_book_rating(...); return {'id': book_id}, 201
AddBookRating(p) ==
    /\ pc[p] = "add_book_rating"
    /\ IF CanInsert(rating_collection, NewRating(loc[p].current_key, req[p].payload.title))
       THEN /\ rating_collection' = insert_one(rating_collection,
                                        NewRating(loc[p].current_key, req[p].payload.title))
            /\ Respond(p, [status |-> 201, id |-> Str(loc[p].current_key)])
       ELSE /\ Crash(p, "DuplicateKeyError")
            /\ UNCHANGED rating_collection
    /\ UNCHANGED <<overlapped, book_club, loan_collection, book_collection, req, allocated, appended>>

\* ------------------------------------------------------------ DELETE /books/{id}
\* SpecificBook.delete: book = get_book(book_id); 404 when it is None.
BookDelete(p, book_id) ==
    /\ Begin(p, [op |-> "delete_book", book_id |-> book_id])
    /\ loc' = [loc EXCEPT ![p] = NoLoc]
    /\ IF get_book(book_collection, book_id) = None
       THEN /\ pc' = [pc EXCEPT ![p] = "idle"]
            /\ resp' = [resp EXCEPT ![p] = [status |-> 404, error |-> "Book not found"]]
       ELSE /\ pc' = [pc EXCEPT ![p] = "delete_book_get"]
            /\ resp' = [resp EXCEPT ![p] = NoResp]
    /\ UNCHANGED <<overlapped, book_club, loan_collection, book_collection, rating_collection, allocated, appended>>

\* delete_book: book = self.get_book(int(book_id)); if book is not None: ...
DeleteBookGet(p) ==
    /\ pc[p] = "delete_book_get"
    /\ loc' = [loc EXCEPT ![p].book = get_book(book_collection, req[p].book_id)]
    /\ IF get_book(book_collection, req[p].book_id) = None
       THEN Goto(p, "delete_book_rating")
       ELSE Goto(p, "delete_book_delete_one")
    /\ UNCHANGED <<overlapped, book_club, loan_collection, book_collection, rating_collection, req, allocated, appended>>

\* delete_book: book_collection.delete_one(book), the filter being the whole
\* book as read (every field but _id).
DeleteBookDeleteOne(p) ==
    /\ pc[p] = "delete_book_delete_one"
    /\ book_collection' = delete_one(book_collection, loc[p].book)
    /\ Goto(p, "delete_book_rating_delete_one")
    /\ UNCHANGED <<overlapped, book_club, loan_collection, rating_collection, req, loc, allocated, appended>>

\* rating_collection.delete_one({"_id": book_id}) with book_id the string of the
\* URL: every _id is an integer and no integer equals a string, so no document
\* matches and none is removed.
delete_one_str_id(coll, book_id) == coll

\* Mutant of DeleteBookRatingDeleteOne: the filter {"_id": book_id} with the
\* string of the URL, as delete_book_rating has it.
DeleteBookRatingDeleteOneStrId(p) ==
    /\ pc[p] = "delete_book_rating_delete_one"
    /\ rating_collection' = delete_one_str_id(rating_collection, req[p].book_id)
    /\ Goto(p, "delete_book_rating")
    /\ UNCHANGED <<overlapped, book_club, loan_collection, book_collection, req, loc, allocated, appended>>

\* The history of appends without those to the rating of book_id.
ForgetAppends(bag, book_id) ==
    [e \in {x \in DOMAIN bag : x[1] # book_id} |-> bag[e]]

\* delete_book: rating_collection.delete_one({"_id": int(book_id)}); the history
\* of appends to a removed rating is dropped with it.
DeleteBookRatingDeleteOne(p) ==
    /\ pc[p] = "delete_book_rating_delete_one"
    /\ rating_collection' = delete_one(rating_collection, [_id |-> IntOf(req[p].book_id)])
    /\ appended' = IF rating_collection' # rating_collection
                   THEN ForgetAppends(appended, req[p].book_id) ELSE appended
    /\ Goto(p, "delete_book_rating")
    /\ UNCHANGED <<overlapped, book_club, loan_collection, book_collection, req, loc, allocated>>

\* delete_book_rating(book_id): rating = get_book_rating(book_id); if rating is
\* not None: rating_collection.delete_one({"_id": book_id}). Then 200.
DeleteBookRating(p) ==
    /\ pc[p] = "delete_book_rating"
    /\ IF get_book_rating(rating_collection, req[p].book_id) # None
       THEN rating_collection' = delete_one_str_id(rating_collection, req[p].book_id)
       ELSE UNCHANGED rating_collection
    /\ Respond(p, [status |-> 200, id |-> req[p].book_id])
    /\ UNCHANGED <<overlapped, book_club, loan_collection, book_collection, req, allocated, appended>>

\* ------------------------------------------------------------ PUT /books/{id}
\* validate_book_update: the error it returns, or NoError for None. It makes
\* no scan of the other books' ISBNs.
validate_book_update(book_payload) ==
    IF DOMAIN book_payload # {"title", "ISBN", "genre", "authors", "publisher", "publishedDate"}
    THEN "Unprocessable content - check validity of fields"
    ELSE IF book_payload.genre \notin GENRES THEN "Invalid genre"
    ELSE IF Len(book_payload.ISBN) # 13 THEN "Invalid ISBN"
    ELSE NoError

\* SpecificBook.put up to update_book: 404 when get_book is None, 415 on an
\* empty payload, 422 on an invalid one.
BookPut(p, book_id, book_payload) ==
    /\ Begin(p, [op |-> "put_book", book_id |-> book_id, payload |-> book_payload])
    /\ loc' = [loc EXCEPT ![p] = NoLoc]
    /\ IF get_book(book_collection, book_id) = None
       THEN /\ pc' = [pc EXCEPT ![p] = "idle"]
            /\ resp' = [resp EXCEPT ![p] = [status |-> 404, error |-> "Book not found"]]
       ELSE IF DOMAIN book_payload = {}
       THEN /\ pc' = [pc EXCEPT ![p] = "idle"]
            /\ resp' = [resp EXCEPT ![p] = [status |-> 415, error |-> "Unsupported media type"]]
       ELSE IF validate_book_update(book_payload) # NoError
       THEN /\ pc' = [pc EXCEPT ![p] = "idle"]
            /\ resp' = [resp EXCEPT ![p] =
                    [status |-> 422, error |-> validate_book_update(book_payload)]]
       ELSE /\ pc' = [pc EXCEPT ![p] = "update_book_get"]
            /\ resp' = [resp EXCEPT ![p] = NoResp]
    /\ UNCHANGED <<overlapped, book_club, loan_collection, book_collection, rating_collection, allocated, appended>>

\* update_book: book = self.get_book(int(book_id)); if book: ... ; a book gone
\* by now is left alone and put still answers 200.
UpdateBookGet(p) ==
    /\ pc[p] = "update_book_get"
    /\ IF get_book(book_collection, req[p].book_id) = None
       THEN Respond(p, [status |-> 200, id |-> req[p].book_id])
       ELSE Goto(p, "update_book_update_one") /\ UNCHANGED loc
    /\ UNCHANGED <<overlapped, book_club, loan_collection, book_collection, rating_collection, req, allocated, appended>>

\* Mutant of UpdateBookUpdateOne: the new title is also written to the rating
\* of the book.
UpdateBookUpdateOneWithRating(p) ==
    /\ pc[p] = "update_book_update_one"
    /\ book_collection' = update_one_set(book_collection, [_id |-> IntOf(req[p].book_id)],
                                         req[p].payload)
    /\ rating_collection' = update_one_set(rating_collection, [_id |-> IntOf(req[p].book_id)],
                                           [title |-> req[p].payload.title])
    /\ Respond(p, [status |-> 200, id |-> req[p].book_id])
    /\ UNCHANGED <<overlapped, book_club, loan_collection, req, allocated, appended>>

\* Mutant of UpdateBookUpdateOne: the new title is also written to the loans
\* of the book.
UpdateBookUpdateOneJoined(p) ==
    /\ pc[p] = "update_book_update_one"
    /\ book_collection' = update_one_set(book_collection, [_id |-> IntOf(req[p].book_id)],
                                         req[p].payload)
    /\ loan_collection' = [i \in 1..Len(loan_collection) |->
            IF loan_collection[i]._id > 0 /\ loan_collection[i].bookID = req[p].book_id
            THEN [loan_collection[i] EXCEPT !.title = req[p].payload.title]
            ELSE loan_collection[i]]
    /\ Respond(p, [status |-> 200, id |-> req[p].book_id])
    /\ UNCHANGED <<overlapped, book_club, rating_collection, req, allocated, appended>>

\* update_book: book_collection.update_one({"_id": int(book_id)}, {"$set": updated_book}); then 200.
UpdateBookUpdateOne(p) ==
    /\ pc[p] = "update_book_update_one"
    /\ book_collection' = update_one_set(book_collection, [_id |-> IntOf(req[p].book_id)],
                                         req[p].payload)
    /\ Respond(p, [status |-> 200, id |-> req[p].book_id])
    /\ UNCHANGED <<overlapped, book_club, loan_collection, rating_collection, req, allocated, appended>>

\* ------------------------------------------------------------ POST /ratings/{id}/values
\* SpecificRatingsValues.post up to add_rating_value: 404 when the rating is
\* None, 415 on an empty payload, 422 on an invalid one.
RatingHasRoom(ratings, book_id) ==
    get_book_rating(ratings, book_id) # None
        => Len(get_book_rating(ratings, book_id).values) < MaxValues

RatingPost(p, book_id, rating_payload) ==
    /\ Begin(p, [op |-> "post_value", book_id |-> book_id, payload |-> rating_payload])
    /\ RatingHasRoom(rating_collection, book_id)
    /\ IF get_book_rating(rating_collection, book_id) = None
       THEN /\ pc' = [pc EXCEPT ![p] = "idle"]
            /\ resp' = [resp EXCEPT ![p] = [status |-> 404, error |-> "Rating not found"]]
            /\ loc' = [loc EXCEPT ![p] = NoLoc]
       ELSE IF DOMAIN rating_payload = {}
       THEN /\ pc' = [pc EXCEPT ![p] = "idle"]
            /\ resp' = [resp EXCEPT ![p] = [status |-> 415, error |-> "Unsupported media type"]]
            /\ loc' = [loc EXCEPT ![p] = NoLoc]
       ELSE IF validate_rating_for_a_book(rating_payload) # NoError
       THEN /\ pc' = [pc EXCEPT ![p] = "idle"]
            /\ resp' = [resp EXCEPT ![p] =
                    [status |-> 422, error |-> validate_rating_for_a_book(rating_payload)]]
            /\ loc' = [loc EXCEPT ![p] = NoLoc]
       ELSE /\ pc' = [pc EXCEPT ![p] = "add_rating_value"]
            /\ resp' = [resp EXCEPT ![p] = NoResp]
            /\ loc' = [loc EXCEPT ![p] =
                    [NoLoc EXCEPT !.rating = get_book_rating(rating_collection, book_id)]]
    /\ UNCHANGED <<overlapped, book_club, loan_collection, book_collection, rating_collection, allocated, appended>>

\* add_rating_value: the write it makes to the ratings.
PushValue(ratings, rating_id, rating_value) ==
    update_one_push(ratings, [_id |-> IntOf(rating_id)], rating_value)

\* Mutant of AddRatingValue: the value is appended to the list the handler read
\* with the rating, and the list is written back with "$set".
AddRatingValueWriteBack(p) ==
    /\ pc[p] = "add_rating_value"
    /\ rating_collection' = update_one_set(rating_collection, [_id |-> IntOf(req[p].book_id)],
                                [values |-> Append(loc[p].rating.values, req[p].payload.value)])
    /\ loc' = [loc EXCEPT ![p].matched =
                IF FirstMatch(rating_collection, [_id |-> IntOf(req[p].book_id)]) = 0 THEN 0 ELSE 1]
    /\ Goto(p, "calculate_rating_average")
    /\ UNCHANGED <<overlapped, book_club, loan_collection, book_collection, req, allocated, appended>>

\* add_rating_value: rating_collection.update_one({"_id": int(rating_id)},
\* {"$push": {"values": rating_value}}); matched is the update's matched_count.
AddRatingValue(p) ==
    /\ pc[p] = "add_rating_value"
    /\ rating_collection' = PushValue(rating_collection, req[p].book_id, req[p].payload.value)
    /\ loc' = [loc EXCEPT ![p].matched =
                IF FirstMatch(rating_collection, [_id |-> IntOf(req[p].book_id)]) = 0 THEN 0 ELSE 1]
    /\ Goto(p, "calculate_rating_average")
    /\ UNCHANGED <<overlapped, book_club, loan_collection, book_collection, req, allocated, appended>>

\* Mutant of Average: the floor division sum // len.
AverageFloor(values) == Quotient(Sum(values) \div Len(values), 1)

\* sum(rating["values"]) / len(rating["values"])
Average(values) == Quotient(Sum(values), Len(values))

\* calculate_rating_average: rating = find_one(...); new_average = sum / len.
\* rating["values"] of None raises TypeError, a division by len 0 ZeroDivisionError.
CalculateRatingAverageFind(p) ==
    /\ pc[p] = "calculate_rating_average"
    /\ IF find_one(rating_collection, [_id |-> IntOf(req[p].book_id)]) = None
       THEN Crash(p, "TypeError")
       ELSE IF find_one(rating_collection, [_id |-> IntOf(req[p].book_id)]).values = <<>>
       THEN Crash(p, "ZeroDivisionError")
       ELSE /\ loc' = [loc EXCEPT ![p].new_average =
                    Average(find_one(rating_collection, [_id |-> IntOf(req[p].book_id)]).values)]
            /\ Goto(p, "calculate_rating_average_set")
    /\ UNCHANGED <<overlapped, book_club, loan_collection, book_collection, rating_collection, req, allocated, appended>>

\* calculate_rating_average: update_one({"_id": int(rating_id)}, {"$set":
\* {"average": new_average}}); the handler then answers 201 with the average.
CalculateRatingAverageSet(p) ==
    /\ pc[p] = "calculate_rating_average_set"
    /\ rating_collection' = update_one_set(rating_collection, [_id |-> IntOf(req[p].book_id)],
                                           [average |-> loc[p].new_average])
    /\ appended' = appended (+) SetToBag({<<req[p].book_id, req[p].payload.value>>})
    /\ Respond(p, [status |-> 201, average |-> loc[p].new_average])
    /\ UNCHANGED <<overlapped, book_club, loan_collection, book_collection, req, allocated>>

\* ------------------------------------------------------------ GET /top
\* A book needs this many rating values to be ranked.
MinValuesForTop == 3
\* The number of distinct averages the output holds.
TopRates == 3

\* a < b for two averages.
AvgLess(a, b) == a.num * b.den < b.num * a.den

\* The rating's average of a book, as the sort key and the loop read it.
AverageOf(ratings, book) == get_book_rating(ratings, book.id).average

\* sorted(..., reverse=True) is stable: a book goes after every book already
\* placed whose average is not lower than its own.
RECURSIVE InsertByAverage(_, _, _)
InsertByAverage(ratings, book, placed) ==
    IF placed = <<>> THEN <<book>>
    ELSE IF AvgLess(AverageOf(ratings, Head(placed)), AverageOf(ratings, book))
    THEN <<book>> \o placed
    ELSE <<Head(placed)>> \o InsertByAverage(ratings, book, Tail(placed))

\* Mutant of SortedByAverage: the eligible books in the order of the store.
SortedByAverageUnsorted(ratings, books) == books

RECURSIVE SortedByAverage(_, _)
SortedByAverage(ratings, books) ==
    IF books = <<>> THEN <<>>
    ELSE InsertByAverage(ratings, books[Len(books)],
                         SortedByAverage(ratings, SubSeq(books, 1, Len(books) - 1)))

\* Mutant of TopLoop: the loop stops once the output holds TopRates books.
RECURSIVE TopLoopByCount(_, _, _, _, _)
TopLoopByCount(ratings, sorted_books, top_books, top_rate_counter, current_average) ==
    IF sorted_books = <<>> \/ Len(top_books) >= TopRates THEN top_books
    ELSE TopLoopByCount(ratings, Tail(sorted_books),
                 Append(top_books, [id |-> Head(sorted_books).id,
                                    title |-> Head(sorted_books).title,
                                    average |-> AverageOf(ratings, Head(sorted_books))]),
                 top_rate_counter, AverageOf(ratings, Head(sorted_books)))

\* The loop over sorted_books: the counter goes up at every change of average
\* and the loop breaks once it exceeds TopRates.
RECURSIVE TopLoop(_, _, _, _, _)
TopLoop(ratings, sorted_books, top_books, top_rate_counter, current_average) ==
    IF sorted_books = <<>> THEN top_books
    ELSE IF /\ AverageOf(ratings, Head(sorted_books)) # current_average
            /\ top_rate_counter + 1 > TopRates
    THEN top_books
    ELSE TopLoop(ratings, Tail(sorted_books),
                 Append(top_books, [id |-> Head(sorted_books).id,
                                    title |-> Head(sorted_books).title,
                                    average |-> AverageOf(ratings, Head(sorted_books))]),
                 IF AverageOf(ratings, Head(sorted_books)) # current_average
                 THEN top_rate_counter + 1 ELSE top_rate_counter,
                 AverageOf(ratings, Head(sorted_books)))

\* The books with at least MinValuesForTop values.
\* Mutant of IsEligible: more than MinValuesForTop values.
IsEligibleAbove(ratings, book) == Len(get_book_rating(ratings, book.id).values) > MinValuesForTop

IsEligible(ratings, book) == Len(get_book_rating(ratings, book.id).values) >= MinValuesForTop

EligibleBooks(books, ratings) ==
    LET all == get_books(books)
        F[i \in 0..Len(all)] ==
            IF i = 0 THEN <<>>
            ELSE IF IsEligible(ratings, all[i]) THEN Append(F[i - 1], all[i]) ELSE F[i - 1]
    IN F[Len(all)]

\* TopBooks.get on one snapshot of the store: the response 200 with the list,
\* or the 500 of the TypeError that get_book_rating(...)['values'] raises on a
\* book without a rating.
TopBooksGet(books, ratings) ==
    IF \E i \in 1..Len(get_books(books)) :
            get_book_rating(ratings, get_books(books)[i].id) = None
    THEN [status |-> 500, error |-> "TypeError"]
    ELSE [status |-> 200,
          body |-> TopLoop(ratings, SortedByAverage(ratings, EligibleBooks(books, ratings)),
                           <<>>, 0, Zero)]

\* TopBooks.get as one step. The handler reads the books once and then the
\* rating of each; with no other request of the service in progress the reads
\* see one state of the store.
\* TopBooks.get read by read, as other workers see it: get_books() lists the
\* books once, then every get_book_rating is a find_one of its own, and
\* subscripting the None of a missing rating raises TypeError.
TopGetBooks(p) ==
    /\ Begin(p, [op |-> "get_top"])
    /\ loc' = [loc EXCEPT ![p] = [NoLoc EXCEPT !.top.books = get_books(book_collection)]]
    /\ pc' = [pc EXCEPT ![p] = "top_eligible"]
    /\ resp' = [resp EXCEPT ![p] = NoResp]
    /\ UNCHANGED <<overlapped, book_club, book_collection, rating_collection, loan_collection,
                   allocated, appended>>

\* [book for book in get_books() if len(get_book_rating(book['id'])['values']) >= 3]
TopGetEligible(p) ==
    /\ pc[p] = "top_eligible"
    /\ IF loc[p].top.books = <<>>
       THEN /\ Goto(p, "top_sorted")
            /\ loc' = [loc EXCEPT ![p].top.books = loc[p].top.eligible_books]
       ELSE IF get_book_rating(rating_collection, Head(loc[p].top.books).id) = None
       THEN Crash(p, "TypeError")
       ELSE /\ Goto(p, "top_eligible")
            /\ loc' = [loc EXCEPT
                    ![p].top.books = Tail(loc[p].top.books),
                    ![p].top.eligible_books =
                        IF IsEligible(rating_collection, Head(loc[p].top.books))
                        THEN Append(loc[p].top.eligible_books, Head(loc[p].top.books))
                        ELSE loc[p].top.eligible_books]
    /\ UNCHANGED <<overlapped, book_club, book_collection, rating_collection, loan_collection,
                   req, allocated, appended>>

\* sorted(eligible_books, key=lambda book: get_book_rating(book['id'])['average'],
\* reverse=True): one key read per eligible book, then the ordering by those keys.
TopGetSorted(p) ==
    /\ pc[p] = "top_sorted"
    /\ IF loc[p].top.books = <<>>
       THEN /\ Goto(p, "top_loop")
            /\ loc' = [loc EXCEPT ![p].top.sorted_books =
                            SortedByAverage(loc[p].top.keys, loc[p].top.eligible_books)]
       ELSE IF get_book_rating(rating_collection, Head(loc[p].top.books).id) = None
       THEN Crash(p, "TypeError")
       ELSE /\ Goto(p, "top_sorted")
            /\ loc' = [loc EXCEPT
                    ![p].top.books = Tail(loc[p].top.books),
                    ![p].top.keys = Append(loc[p].top.keys,
                        [_id |-> IntOf(Head(loc[p].top.books).id),
                         average |-> AverageOf(rating_collection, Head(loc[p].top.books))])]
    /\ UNCHANGED <<overlapped, book_club, book_collection, rating_collection, loan_collection,
                   req, allocated, appended>>

\* for book in sorted_books: if get_book_rating(book['id'])['average'] != current_average
TopGetLoop(p) ==
    /\ pc[p] = "top_loop"
    /\ IF loc[p].top.sorted_books = <<>>
       THEN Respond(p, [status |-> 200, body |-> loc[p].top.top_books])
       ELSE IF get_book_rating(rating_collection, Head(loc[p].top.sorted_books).id) = None
       THEN Crash(p, "TypeError")
       ELSE IF AverageOf(rating_collection, Head(loc[p].top.sorted_books))
                    = loc[p].top.current_average
       THEN Goto(p, "top_loop_append") /\ UNCHANGED loc
       ELSE IF loc[p].top.top_rate_counter + 1 > TopRates
       THEN Respond(p, [status |-> 200, body |-> loc[p].top.top_books])
       ELSE /\ Goto(p, "top_loop_append")
            /\ loc' = [loc EXCEPT ![p].top.top_rate_counter = loc[p].top.top_rate_counter + 1]
    /\ UNCHANGED <<overlapped, book_club, book_collection, rating_collection, loan_collection,
                   req, allocated, appended>>

\* top_books.append({'id': ..., 'title': ..., 'average': get_book_rating(book['id'])['average']})
TopGetLoopAppend(p) ==
    /\ pc[p] = "top_loop_append"
    /\ IF get_book_rating(rating_collection, Head(loc[p].top.sorted_books).id) = None
       THEN Crash(p, "TypeError")
       ELSE /\ Goto(p, "top_loop_current")
            /\ loc' = [loc EXCEPT ![p].top.top_books = Append(loc[p].top.top_books,
                        [id |-> Head(loc[p].top.sorted_books).id,
                         title |-> Head(loc[p].top.sorted_books).title,
                         average |-> AverageOf(rating_collection,
                                               Head(loc[p].top.sorted_books))])]
    /\ UNCHANGED <<overlapped, book_club, book_collection, rating_collection, loan_collection,
                   req, allocated, appended>>

\* current_average = get_book_rating(book['id'])['average']
TopGetLoopCurrent(p) ==
    /\ pc[p] = "top_loop_current"
    /\ IF get_book_rating(rating_collection, Head(loc[p].top.sorted_books).id) = None
       THEN Crash(p, "TypeError")
       ELSE /\ Goto(p, "top_loop")
            /\ loc' = [loc EXCEPT
                    ![p].top.current_average =
                        AverageOf(rating_collection, Head(loc[p].top.sorted_books)),
                    ![p].top.sorted_books = Tail(loc[p].top.sorted_books)]
    /\ UNCHANGED <<overlapped, book_club, book_collection, rating_collection, loan_collection,
                   req, allocated, appended>>

TopGet(p) ==
    /\ Begin(p, [op |-> "get_top"])
    /\ resp' = [resp EXCEPT ![p] = TopBooksGet(book_collection, rating_collection)]
    /\ UNCHANGED <<overlapped, book_club, book_collection, rating_collection, loan_collection,
                   pc, loc, allocated, appended>>

\* ------------------------------------------------------------ GET /books?field=value
REQUIRED_FIELDS == {"title", "ISBN", "genre", "authors", "publisher", "publishedDate", "id"}

CharAt(s, i) == SubSeq(s, i, i)

\* The position of the first c in s, 0 when there is none.
IndexOf(s, c) ==
    IF \E i \in 1..Len(s) : CharAt(s, i) = c
    THEN CHOOSE i \in 1..Len(s) : CharAt(s, i) = c /\ \A j \in 1..(i - 1) : CharAt(s, j) # c
    ELSE 0

\* s.split(c)
RECURSIVE Split(_, _)
Split(s, c) ==
    IF IndexOf(s, c) = 0 THEN <<s>>
    ELSE <<SubSeq(s, 1, IndexOf(s, c) - 1)>> \o Split(SubSeq(s, IndexOf(s, c) + 1, Len(s)), c)

\* One "field=value" of a query string as <<field, value>>; the value is
\* empty when there is no "=".
QueryPair(part) ==
    IF IndexOf(part, "=") = 0 THEN <<part, "">>
    ELSE <<SubSeq(part, 1, IndexOf(part, "=") - 1),
           SubSeq(part, IndexOf(part, "=") + 1, Len(part))>>

\* request.args.items() of the query string after "?": the pairs between the
\* "&", empty ones skipped, each field once with the first of its values.
RequestArgs(query) ==
    LET parts == SelectSeq(Split(query, "&"), LAMBDA part : part # "")
        pairs == [i \in 1..Len(parts) |-> QueryPair(parts[i])]
        F[i \in 0..Len(pairs)] ==
            IF i = 0 THEN <<>>
            ELSE IF \E j \in 1..(i - 1) : pairs[j][1] = pairs[i][1] THEN F[i - 1]
            ELSE Append(F[i - 1], pairs[i])
    IN F[Len(pairs)]

\* The loop of Books.get over the query parameters: the books left by the
\* filters, or the error of the first invalid field or genre.
RECURSIVE FilterBooks(_, _)
FilterBooks(filtered_books, request_parameters) ==
    IF request_parameters = <<>> THEN [error |-> NoError, books |-> filtered_books]
    ELSE IF \/ Head(request_parameters)[1] \notin REQUIRED_FIELDS
            \/ (Head(request_parameters)[1] = "genre" /\ Head(request_parameters)[2] \notin GENRES)
    THEN [error |-> "Invalid field or genre", books |-> <<>>]
    ELSE FilterBooks(SelectSeq(filtered_books,
                               LAMBDA book : book[Head(request_parameters)[1]]
                                                = Head(request_parameters)[2]),
                     Tail(request_parameters))

\* Books.get on a query string: 422 on an unknown field or genre; else the
\* books every parameter's field of which equals its value, as a JSON object
\* when exactly one is left and as a JSON array otherwise.
BooksGet(books, query) ==
    LET result == FilterBooks(get_books(books), RequestArgs(query))
    IN IF result.error # NoError
       THEN [status |-> 422, json |-> "object", value |-> [error |-> result.error]]
       ELSE IF Len(result.books) = 1
       THEN [status |-> 200, json |-> "object", value |-> result.books[1]]
       ELSE [status |-> 200, json |-> "array", value |-> result.books]

\* len(response.json()): the number of elements of a list, of keys of a dict.
JsonLen(body) ==
    IF body.json = "array" THEN Len(body.value) ELSE Cardinality(DOMAIN body.value)

\* ------------------------------------------------------------ loan service
\* get_loans(): find({"_id": {"$gt": 0}}, {"_id": 0})
get_loans(loans) == Projected(SelectSeq(loans, IsBookDoc))

\* get_loan(loan_id)
get_loan(loans, loan_id) ==
    IF IntOf(loan_id) > 0
    THEN (IF find_one(loans, [_id |-> IntOf(loan_id)]) = None THEN None
          ELSE DropId(find_one(loans, [_id |-> IntOf(loan_id)])))
    ELSE None

\* loan_count_of_member: count_documents({"memberName": member_name})
loan_count_of_member(loans, member_name) ==
    Cardinality({i \in 1..Len(loans) : Matches(loans[i], [memberName |-> member_name])})

\* A member may hold this many loans.
MaxLoansOfMember == 2

Digits == {"0", "1", "2", "3", "4", "5", "6", "7", "8", "9"}
DigitValue(c) == CHOOSE n \in 0..9 : ToString(n) = c

\* int() of a string of digits.
RECURSIVE NumberOf(_)
NumberOf(s) ==
    IF Len(s) = 0 THEN 0
    ELSE 10 * NumberOf(SubSeq(s, 1, Len(s) - 1)) + DigitValue(CharAt(s, Len(s)))

\* re.compile(r'^\d{4}-\d{2}-\d{2}$').match(s): "$" also matches before a
\* newline that ends the string.
MatchesDatePattern(s) ==
    /\ Len(s) = 10 \/ (Len(s) = 11 /\ CharAt(s, 11) = "\n")
    /\ \A i \in {1, 2, 3, 4, 6, 7, 9, 10} : CharAt(s, i) \in Digits
    /\ CharAt(s, 5) = "-" /\ CharAt(s, 8) = "-"

IsLeapYear(y) == (y % 4 = 0 /\ y % 100 # 0) \/ y % 400 = 0

DaysInMonth(y, m) ==
    IF m = 2 THEN (IF IsLeapYear(y) THEN 29 ELSE 28)
    ELSE IF m \in {4, 6, 9, 11} THEN 30 ELSE 31

\* datetime.strptime(s, '%Y-%m-%d') of a string matching the pattern returns
\* (no ValueError) exactly for a date of the calendar, years 1 to 9999.
StrptimeAccepts(s) ==
    /\ Len(s) = 10
    /\ NumberOf(SubSeq(s, 1, 4)) >= 1
    /\ NumberOf(SubSeq(s, 6, 7)) \in 1..12
    /\ NumberOf(SubSeq(s, 9, 10)) \in
            1..DaysInMonth(NumberOf(SubSeq(s, 1, 4)), NumberOf(SubSeq(s, 6, 7)))

\* Mutant of validate_loan_fields: without the scan for a loan of the same ISBN.
validate_loan_fields_no_scan(loans, loan_payload) ==
    IF DOMAIN loan_payload # {"memberName", "ISBN", "loanDate"}
    THEN "Unprocessable content - check validity of fields"
    ELSE IF Len(loan_payload.ISBN) # 13 THEN "Invalid ISBN"
    ELSE NoError

\* validate_loan_addition up to its scan of the loans (get_loans): the error
\* it returns there, or NoError to go on.
validate_loan_fields(loans, loan_payload) ==
    IF DOMAIN loan_payload # {"memberName", "ISBN", "loanDate"}
    THEN "Unprocessable content - check validity of fields"
    ELSE IF Len(loan_payload.ISBN) # 13 THEN "Invalid ISBN"
    ELSE IF \E i \in 1..Len(get_loans(loans)) : get_loans(loans)[i].ISBN = loan_payload.ISBN
    THEN "This book is already on loan"
    ELSE NoError

\* Mutant of validate_loan_member_and_date: the date is checked before the
\* member's count.
validate_loan_date_and_member(loans, loan_payload) ==
    IF ~MatchesDatePattern(loan_payload.loanDate)
    THEN "Invalid date format, should be YYYY-MM-DD"
    ELSE IF ~StrptimeAccepts(loan_payload.loanDate) THEN "Invalid date"
    ELSE IF loan_count_of_member(loans, loan_payload.memberName) >= MaxLoansOfMember
    THEN "Too many books on loan for " \o loan_payload.memberName \o "."
    ELSE NoError

\* Mutant of validate_loan_member_and_date: the member limit off by one.
validate_loan_member_and_date_above(loans, loan_payload) ==
    IF loan_count_of_member(loans, loan_payload.memberName) > MaxLoansOfMember
    THEN "Too many books on loan for " \o loan_payload.memberName \o "."
    ELSE IF ~MatchesDatePattern(loan_payload.loanDate)
    THEN "Invalid date format, should be YYYY-MM-DD"
    ELSE IF ~StrptimeAccepts(loan_payload.loanDate) THEN "Invalid date"
    ELSE NoError

\* validate_loan_addition from loan_count_of_member on: the error, or NoError.
validate_loan_member_and_date(loans, loan_payload) ==
    IF loan_count_of_member(loans, loan_payload.memberName) >= MaxLoansOfMember
    THEN "Too many books on loan for " \o loan_payload.memberName \o "."
    ELSE IF ~MatchesDatePattern(loan_payload.loanDate)
    THEN "Invalid date format, should be YYYY-MM-DD"
    ELSE IF ~StrptimeAccepts(loan_payload.loanDate) THEN "Invalid date"
    ELSE NoError

\* Module level of the loan service: if loan_collection.find_one({"_id": 0}) is None: ...
LoanStartupFind(p) ==
    /\ pc[p] = "down"
    /\ IF find_one(loan_collection, current_key_doc_identifier) = None
       THEN pc' = [pc EXCEPT ![p] = "startup_upsert"]
       ELSE pc' = [pc EXCEPT ![p] = "idle"]
    /\ UNCHANGED <<overlapped, book_club, book_collection, rating_collection, loan_collection, req, loc, resp,
                   allocated, appended>>

\* ... loan_collection.update_one({"_id": 0}, {"$setOnInsert": {"highest_object_id": 0}}, upsert=True)
LoanStartupUpsert(p) ==
    /\ pc[p] = "startup_upsert"
    /\ loan_collection' = update_one_upsert(loan_collection, current_key_doc_identifier,
                                            [highest_object_id |-> 0])
    /\ loc' = [loc EXCEPT ![p].matched =
                IF FirstMatch(loan_collection, current_key_doc_identifier) = 0 THEN 0 ELSE 1]
    /\ pc' = [pc EXCEPT ![p] = "idle"]
    /\ UNCHANGED <<overlapped, book_club, book_collection, rating_collection, req, resp, allocated, appended>>

\* A worker between the validation and the end of Loans.post.
InCreation(q) ==
    pc[q] \in {"loan_count_of_member", "check_if_in_library", "loan_increment_id_find",
               "loan_increment_id_update", "add_loan"}

\* Loans.post up to the scan of the loans in validate_loan_addition: 415 on an
\* empty payload, 422 on the first three checks.
LoansPost(p, loan_payload) ==
    /\ Begin(p, [op |-> "post_loan", payload |-> loan_payload])
    /\ HighestObjectId(loan_collection) < MaxLoanId
    /\ loc' = [loc EXCEPT ![p] = NoLoc]
    /\ IF DOMAIN loan_payload = {}
       THEN /\ pc' = [pc EXCEPT ![p] = "idle"]
            /\ resp' = [resp EXCEPT ![p] = [status |-> 415, error |-> "Unsupported media type"]]
       ELSE IF validate_loan_fields(loan_collection, loan_payload) # NoError
       THEN /\ pc' = [pc EXCEPT ![p] = "idle"]
            /\ resp' = [resp EXCEPT ![p] =
                    [status |-> 422, error |-> validate_loan_fields(loan_collection, loan_payload)]]
       ELSE /\ pc' = [pc EXCEPT ![p] = "loan_count_of_member"]
            /\ resp' = [resp EXCEPT ![p] = NoResp]
    /\ overlapped' = (overlapped \/ (pc'[p] # "idle" /\ \E q \in LoanProcs \ {p} : InCreation(q)))
    /\ UNCHANGED <<book_club, book_collection, rating_collection, loan_collection, allocated, appended>>

\* Mutant of LoanCountOfMember: the error of the validation is not returned.
LoanCountOfMemberNoReturn(p) ==
    /\ pc[p] = "loan_count_of_member"
    /\ Goto(p, "check_if_in_library")
    /\ UNCHANGED <<overlapped, book_club, book_collection, rating_collection, loan_collection, req, loc, allocated, appended>>

\* validate_loan_addition from loan_count_of_member on: 422, or on to the catalog.
LoanCountOfMember(p) ==
    /\ pc[p] = "loan_count_of_member"
    /\ IF validate_loan_member_and_date(loan_collection, req[p].payload) # NoError
       THEN Respond(p, [status |-> 422,
                        error |-> validate_loan_member_and_date(loan_collection, req[p].payload)])
       ELSE Goto(p, "check_if_in_library") /\ UNCHANGED loc
    /\ UNCHANGED <<overlapped, book_club, book_collection, rating_collection, loan_collection, req, allocated, appended>>

\* check_if_in_library: the query string of f"{BOOKS_SERVICE_URL}/books?ISBN={ISBN}".
CatalogQuery(ISBN) == "ISBN=" \o ISBN

\* The book service answers requests once one of its instances has started.
BookServiceUp == \E w \in Procs : pc[w] \notin {"down", "startup_upsert"}

\* Mutant of CheckIfInLibrary: without the test for an empty answer.
CheckIfInLibraryStatusOnly(p, reachable) ==
    /\ pc[p] = "check_if_in_library"
    /\ reachable => BookServiceUp
    /\ IF ~reachable
       THEN Crash(p, "ConnectionError")
       ELSE IF BooksGet(book_collection, CatalogQuery(req[p].payload.ISBN)).status # 200
       THEN Respond(p, [status |-> 404, error |-> "book not found in the library"])
       ELSE /\ loc' = [loc EXCEPT ![p].book_details =
                        BooksGet(book_collection, CatalogQuery(req[p].payload.ISBN))]
            /\ Goto(p, "loan_increment_id_find")
    /\ UNCHANGED <<overlapped, book_club, book_collection, rating_collection, loan_collection, req, allocated, appended>>

\* check_if_in_library: requests.get(BOOKS_SERVICE_URL/books?ISBN=...), which
\* Books.get answers from one read of the books; a service that cannot be
\* reached raises ConnectionError. Then 404 on an empty or non-200 answer.
CheckIfInLibrary(p, reachable) ==
    /\ pc[p] = "check_if_in_library"
    /\ reachable => BookServiceUp
    /\ IF ~reachable
       THEN Crash(p, "ConnectionError")
       ELSE IF \/ JsonLen(BooksGet(book_collection, CatalogQuery(req[p].payload.ISBN))) = 0
               \/ BooksGet(book_collection, CatalogQuery(req[p].payload.ISBN)).status # 200
       THEN Respond(p, [status |-> 404, error |-> "book not found in the library"])
       ELSE /\ loc' = [loc EXCEPT ![p].book_details =
                        BooksGet(book_collection, CatalogQuery(req[p].payload.ISBN))]
            /\ Goto(p, "loan_increment_id_find")
    /\ UNCHANGED <<overlapped, book_club, book_collection, rating_collection, loan_collection, req, allocated, appended>>

\* LoansService.increment_id: current_key = find_one({"_id": 0})["highest_object_id"] + 1
LoanIncrementIdFind(p) ==
    /\ pc[p] = "loan_increment_id_find"
    /\ loc' = [loc EXCEPT ![p].current_key = NextKey(loan_collection)]
    /\ Goto(p, "loan_increment_id_update")
    /\ UNCHANGED <<overlapped, book_club, book_collection, rating_collection, loan_collection, req, allocated, appended>>

\* LoansService.increment_id: update_one(..., {"$set": {"highest_object_id":
\* current_key}}); return current_key
LoanIncrementIdUpdate(p) ==
    /\ pc[p] = "loan_increment_id_update"
    /\ loan_collection' = update_one_set(loan_collection, current_key_doc_identifier,
                                         [highest_object_id |-> loc[p].current_key])
    /\ allocated' = [allocated EXCEPT !.loans = Append(@, loc[p].current_key)]
    /\ Goto(p, "add_loan")
    /\ UNCHANGED <<overlapped, book_club, book_collection, rating_collection, req, loc, appended>>

\* The loan document Loans.post builds from the payload and the catalog's answer.
NewLoan(loan_id, book_details, loan_payload) ==
    [_id |-> loan_id, loanID |-> Str(loan_id),
     bookID |-> book_details.id, title |-> book_details.title,
     ISBN |-> loan_payload.ISBN, memberName |-> loan_payload.memberName,
     loanDate |-> loan_payload.loanDate]

\* Loans.post: loan = {... book_details['id'] ...} raises TypeError when the
\* catalog answered with a list; then add_loan(loan) and 201.
AddLoan(p) ==
    /\ pc[p] = "add_loan"
    /\ IF loc[p].book_details.json = "array"
       THEN Crash(p, "TypeError") /\ UNCHANGED loan_collection
       ELSE IF ~CanInsert(loan_collection,
                          NewLoan(loc[p].current_key, loc[p].book_details.value, req[p].payload))
       THEN Crash(p, "DuplicateKeyError") /\ UNCHANGED loan_collection
       ELSE /\ loan_collection' = insert_one(loan_collection,
                    NewLoan(loc[p].current_key, loc[p].book_details.value, req[p].payload))
            /\ Respond(p, [status |-> 201, loanID |-> Str(loc[p].current_key)])
    /\ UNCHANGED <<overlapped, book_club, book_collection, rating_collection, req, allocated, appended>>

\* SpecificLoan.delete: loan = get_loan(loan_id); 404 when it is None.
\* SpecificBook.get: 404 when get_book is None, else the book and 200.
SpecificBookGet(p, book_id) ==
    /\ Begin(p, [op |-> "get_book", book_id |-> book_id])
    /\ resp' = [resp EXCEPT ![p] =
            IF get_book(book_collection, book_id) = None
            THEN [status |-> 404, error |-> "Book not found"]
            ELSE [status |-> 200, body |-> <<get_book(book_collection, book_id)>>]]
    /\ UNCHANGED <<overlapped, book_club, book_collection, rating_collection, loan_collection,
                   pc, loc, allocated, appended>>

\* Books.get without request parameters: the list of get_books(), or the one
\* book when the list has a single element.
BooksList(p) ==
    /\ Begin(p, [op |-> "get_books"])
    /\ resp' = [resp EXCEPT ![p] =
            [status |-> BooksGet(book_collection, "").status,
             body |-> IF BooksGet(book_collection, "").json = "object"
                      THEN <<BooksGet(book_collection, "").value>>
                      ELSE BooksGet(book_collection, "").value]]
    /\ UNCHANGED <<overlapped, book_club, book_collection, rating_collection, loan_collection,
                   pc, loc, allocated, appended>>


\* SpecificLoan.get: 404 when get_loan is None, else the loan and 200.
SpecificLoanGet(p, loan_id) ==
    /\ Begin(p, [op |-> "get_loan", loan_id |-> loan_id])
    /\ resp' = [resp EXCEPT ![p] =
            IF get_loan(loan_collection, loan_id) = None
            THEN [status |-> 404, error |-> "Loan not found"]
            ELSE [status |-> 200, body |-> <<get_loan(loan_collection, loan_id)>>]]
    /\ UNCHANGED <<overlapped, book_club, book_collection, rating_collection, loan_collection,
                   pc, loc, allocated, appended>>

\* Loans.get without request parameters: the list of get_loans().
LoansList(p) ==
    /\ Begin(p, [op |-> "get_loans"])
    /\ resp' = [resp EXCEPT ![p] = [status |-> 200, body |-> get_loans(loan_collection)]]
    /\ UNCHANGED <<overlapped, book_club, book_collection, rating_collection, loan_collection,
                   pc, loc, allocated, appended>>

LoanDelete(p, loan_id) ==
    /\ Begin(p, [op |-> "delete_loan", loan_id |-> loan_id])
    /\ loc' = [loc EXCEPT ![p] = NoLoc]
    /\ IF get_loan(loan_collection, loan_id) = None
       THEN /\ pc' = [pc EXCEPT ![p] = "idle"]
            /\ resp' = [resp EXCEPT ![p] = [status |-> 404, error |-> "Loan not found"]]
       ELSE /\ pc' = [pc EXCEPT ![p] = "delete_loan"]
            /\ resp' = [resp EXCEPT ![p] = NoResp]
    /\ UNCHANGED <<overlapped, book_club, book_collection, rating_collection, loan_collection, allocated, appended>>

\* delete_loan: loan_collection.delete_one({"_id": int(loan_id)}); then 200.
\* Mutant of DeleteLoan: the loan is answered as returned and stays stored.
DeleteLoanKept(p) ==
    /\ pc[p] = "delete_loan"
    /\ loan_collection' = loan_collection
    /\ Respond(p, [status |-> 200, id |-> req[p].loan_id])
    /\ UNCHANGED <<overlapped, book_club, book_collection, rating_collection, req, allocated, appended>>

DeleteLoan(p) ==
    /\ pc[p] = "delete_loan"
    /\ loan_collection' = delete_one(loan_collection, [_id |-> IntOf(req[p].loan_id)])
    /\ Respond(p, [status |-> 200, id |-> req[p].loan_id])
    /\ UNCHANGED <<overlapped, book_club, book_collection, rating_collection, req, allocated, appended>>

\* ------------------------------------------------------------ in-memory service (CSE_hw1)
\* BookClub.__init__: two empty lists and ID = 0.
BookClub == [books |-> <<>>, bookRatings |-> <<>>, ID |-> 0]

\* next((x for x in items if x['id'] == book_id), None)
NextWithId(items, book_id) ==
    IF \E i \in 1..Len(items) : items[i].id = book_id
    THEN items[CHOOSE i \in 1..Len(items) :
                /\ items[i].id = book_id
                /\ \A j \in 1..(i - 1) : items[j].id # book_id]
    ELSE None

\* BookClub.get_book, BookClub.get_book_rating
BookClub_get_book(club, book_id) == NextWithId(club.books, book_id)
BookClub_get_book_rating(club, book_id) == NextWithId(club.bookRatings, book_id)

\* list.remove(x): the list without the first element equal to x.
Remove(items, x) ==
    LET i == CHOOSE k \in 1..Len(items) : items[k] = x /\ \A j \in 1..(k - 1) : items[j] # x
    IN SubSeq(items, 1, i - 1) \o SubSeq(items, i + 1, Len(items))

\* BookClub.delete_book, BookClub.delete_book_rating
BookClub_delete_book(club, book_id) ==
    IF BookClub_get_book(club, book_id) # None
    THEN [club EXCEPT !.books = Remove(@, BookClub_get_book(club, book_id))]
    ELSE club

BookClub_delete_book_rating(club, book_id) ==
    IF BookClub_get_book_rating(club, book_id) # None
    THEN [club EXCEPT !.bookRatings = Remove(@, BookClub_get_book_rating(club, book_id))]
    ELSE club

\* BookClub.validate_book_addition: the error it returns, or NoError for None.
BookClub_validate_book_addition(club, book_payload) ==
    IF DOMAIN book_payload # {"title", "ISBN", "genre"}
    THEN "Unprocessable content - check validity of fields"
    ELSE IF Len(book_payload.ISBN) # 13 THEN "Invalid ISBN"
    ELSE IF book_payload.genre \notin GENRES THEN "Invalid genre"
    ELSE IF \E i \in 1..Len(club.books) : club.books[i].ISBN = book_payload.ISBN
    THEN "A book with this ISBN already exists"
    ELSE NoError

\* Module level: book_club = BookClub()
BookClubStart(p) ==
    /\ p = ClubProc
    /\ pc[p] = "down"
    /\ book_club' = BookClub
    /\ pc' = [pc EXCEPT ![p] = "idle"]
    /\ UNCHANGED <<overlapped, book_collection, rating_collection, loan_collection, req, loc, resp,
                   allocated, appended>>

\* The book and the rating Books.post of the in-memory service builds.
ClubBook(book_id, book_payload) == DropId(NewBook(IntOf(book_id), book_payload))
ClubRating(book_id, title) ==
    [id |-> book_id, values |-> <<>>, average |-> Zero, title |-> title]

\* Books.post of the in-memory service, the whole handler: validation, the
\* lookup of the details, then increment_id (self.ID += 1), add_book and
\* add_book_rating.
ClubBooksPost(p, book_payload, book_details) ==
    /\ p = ClubProc
    /\ Begin(p, [op |-> "post_book", payload |-> book_payload])
    /\ book_club.ID < MaxId
    /\ IF BookClub_validate_book_addition(book_club, book_payload) # NoError
       THEN /\ resp' = [resp EXCEPT ![p] =
                    [status |-> 422,
                     error |-> BookClub_validate_book_addition(book_club, book_payload)]]
            /\ UNCHANGED <<book_club, allocated>>
       ELSE IF book_details = Unavailable
       THEN /\ resp' = [resp EXCEPT ![p] = [status |-> 500, error |-> Unavailable.raised]]
            /\ UNCHANGED <<book_club, allocated>>
       ELSE IF book_details = None
       THEN /\ resp' = [resp EXCEPT ![p] =
                    [status |-> 500, error |-> "Unable to connect to Google Books"]]
            /\ UNCHANGED <<book_club, allocated>>
       ELSE IF book_details = NoSummary
       THEN /\ resp' = [resp EXCEPT ![p] =
                    [status |-> 500, error |-> "Unable to connect to Google Gemini"]]
            /\ UNCHANGED <<book_club, allocated>>
       ELSE /\ book_club' =
                [ID |-> book_club.ID + 1,
                 books |-> Append(book_club.books,
                                  ClubBook(Str(book_club.ID + 1), book_payload)),
                 bookRatings |-> Append(book_club.bookRatings,
                                        ClubRating(Str(book_club.ID + 1), book_payload.title))]
            /\ allocated' = [allocated EXCEPT !.club = Append(@, book_club.ID + 1)]
            /\ resp' = [resp EXCEPT ![p] = [status |-> 201, id |-> Str(book_club.ID + 1)]]
    /\ UNCHANGED <<overlapped, book_collection, rating_collection, loan_collection, pc, loc, appended>>

\* SpecificBook.delete of the in-memory service: 404 when get_book is None,
\* else delete_book, delete_book_rating and 200.
ClubBookDelete(p, book_id) ==
    /\ p = ClubProc
    /\ Begin(p, [op |-> "delete_book", book_id |-> book_id])
    /\ IF BookClub_get_book(book_club, book_id) = None
       THEN /\ resp' = [resp EXCEPT ![p] = [status |-> 404, error |-> "Book not found"]]
            /\ UNCHANGED book_club
       ELSE /\ book_club' = BookClub_delete_book_rating(
                                BookClub_delete_book(book_club, book_id), book_id)
            /\ resp' = [resp EXCEPT ![p] = [status |-> 200, id |-> book_id]]
    /\ UNCHANGED <<overlapped, book_collection, rating_collection, loan_collection, pc, loc,
                   allocated, appended>>

\* rating['values'].append(value); rating['average'] = sum(values) / len(values)
ClubAppendValue(rating, value) ==
    [rating EXCEPT !.values = Append(@, value),
                   !.average = Average(Append(rating.values, value))]

\* SpecificRatingsValues.post of the in-memory service: 404, 415, 422, or the
\* append and the new average in the rating found, and 200.
ClubRatingPost(p, book_id, rating_payload) ==
    /\ p = ClubProc
    /\ Begin(p, [op |-> "post_value", book_id |-> book_id, payload |-> rating_payload])
    /\ BookClub_get_book_rating(book_club, book_id) # None
            => Len(BookClub_get_book_rating(book_club, book_id).values) < MaxValues
    /\ IF BookClub_get_book_rating(book_club, book_id) = None
       THEN /\ resp' = [resp EXCEPT ![p] = [status |-> 404, error |-> "Rating not found"]]
            /\ UNCHANGED book_club
       ELSE IF DOMAIN rating_payload = {}
       THEN /\ resp' = [resp EXCEPT ![p] = [status |-> 415, error |-> "Unsupported media type"]]
            /\ UNCHANGED book_club
       ELSE IF validate_rating_for_a_book(rating_payload) # NoError
       THEN /\ resp' = [resp EXCEPT ![p] =
                    [status |-> 422, error |-> validate_rating_for_a_book(rating_payload)]]
            /\ UNCHANGED book_club
       ELSE /\ book_club' = [book_club EXCEPT !.bookRatings =
                    [i \in 1..Len(@) |->
                        IF @[i] = BookClub_get_book_rating(book_club, book_id)
                        THEN ClubAppendValue(@[i], rating_payload.value) ELSE @[i]]]
            /\ resp' = [resp EXCEPT ![p] =
                    [status |-> 200,
                     average |-> Average(Append(
                        BookClub_get_book_rating(book_club, book_id).values,
                        rating_payload.value))]]
    /\ UNCHANGED <<overlapped, book_collection, rating_collection, loan_collection, pc, loc,
                   allocated, appended>>

\* The lists of the in-memory service as documents keyed by the integer of
\* their id, the shape TopBooksGet reads.
Keyed(items) == [i \in 1..Len(items) |-> [_id |-> IntOf(items[i].id)] @@ items[i]]

\* TopBooks.get of the in-memory service: the same selection, sort and loop as
\* the persistent service's, over book_club.books and book_club.bookRatings.
ClubTopBooksGet(club) == TopBooksGet(Keyed(club.books), Keyed(club.bookRatings))

\* GET /top of the in-memory service.
ClubTopGet(p) ==
    /\ p = ClubProc
    /\ Begin(p, [op |-> "get_top"])
    /\ resp' = [resp EXCEPT ![p] = ClubTopBooksGet(book_club)]
    /\ UNCHANGED <<overlapped, book_club, book_collection, rating_collection, loan_collection,
                   pc, loc, allocated, appended>>

\* ------------------------------------------------------------ specifications
Init ==
    /\ book_collection = <<>>
    /\ rating_collection = <<>>
    /\ loan_collection = <<>>
    /\ book_club = None
    /\ overlapped = FALSE
    /\ pc = [p \in Workers |-> "down"]
    /\ req = [p \in Workers |-> NoReq]
    /\ loc = [p \in Workers |-> NoLoc]
    /\ resp = [p \in Workers |-> NoResp]
    /\ allocated = [books |-> <<>>, loans |-> <<>>, club |-> <<>>]
    /\ appended = EmptyBag

Startup(p) == StartupFind(p) \/ StartupUpsert(p)

Create(p) ==
    \/ \E book_payload \in BookPayloads :
            \E book_details \in {None, BookDetails(book_payload.ISBN)} :
                BooksPost(p, book_payload, book_details)
    \/ IncrementIdFind(p)
    \/ IncrementIdUpdate(p)
    \/ AddBook(p)
    \/ AddBookRating(p)

Delete(p) ==
    \/ \E book_id \in PathIds : BookDelete(p, book_id)
    \/ DeleteBookGet(p)
    \/ DeleteBookDeleteOne(p)
    \/ DeleteBookRatingDeleteOne(p)
    \/ DeleteBookRating(p)

Rate(p) ==
    \/ \E book_id \in PathIds, rating_payload \in RatingPayloads :
            RatingPost(p, book_id, rating_payload)
    \/ AddRatingValue(p)
    \/ CalculateRatingAverageFind(p)
    \/ CalculateRatingAverageSet(p)

Put(p) ==
    \/ \E book_id \in PathIds, book_payload \in PutPayloads : BookPut(p, book_id, book_payload)
    \/ UpdateBookGet(p)
    \/ UpdateBookUpdateOne(p)

LoanStartup(p) == LoanStartupFind(p) \/ LoanStartupUpsert(p)

LoanCreate(p) ==
    \/ \E loan_payload \in LoanPayloads : LoansPost(p, loan_payload)
    \/ LoanCountOfMember(p)
    \/ \E reachable \in BOOLEAN : CheckIfInLibrary(p, reachable)
    \/ LoanIncrementIdFind(p)
    \/ LoanIncrementIdUpdate(p)
    \/ AddLoan(p)

LoanReturn(p) ==
    \/ \E loan_id \in LoanPathIds : LoanDelete(p, loan_id)
    \/ DeleteLoan(p)

\* The requests of the in-memory service.
ClubCreate(p) ==
    \E book_payload \in BookPayloads :
        \E book_details \in {None, BookDetails(book_payload.ISBN)} :
            ClubBooksPost(p, book_payload, book_details)

ClubDelete(p) == \E book_id \in PathIds : ClubBookDelete(p, book_id)

ClubRate(p) ==
    \E book_id \in PathIds, rating_payload \in RatingPayloads :
        ClubRatingPost(p, book_id, rating_payload)

\* Either the persistent services are deployed or the in-memory one.
PersistentDown == \A p \in Procs \cup LoanProcs : pc[p] = "down"
ClubDown == pc[ClubProc] = "down"

\* One worker: every request runs to its response before the next one starts.
NextSeq ==
    \/ ClubDown /\ StartupFind(SeqProc)
    \/ StartupUpsert(SeqProc)
    \/ Create(SeqProc)
    \/ Delete(SeqProc)
    \/ Rate(SeqProc)
    \/ PersistentDown /\ BookClubStart(ClubProc)
    \/ ClubCreate(ClubProc)
    \/ ClubDelete(ClubProc)
    \/ ClubRate(ClubProc)
SpecSeq == Init /\ [][NextSeq]_vars

\* Creations and deletions of books and of loans, one request at a time over
\* the two services: a request begins only when the other service's worker is
\* between requests.
NextIds ==
    \/ ClubDown /\ StartupFind(SeqProc)
    \/ StartupUpsert(SeqProc)
    \/ Quiet(SeqLoanProc) /\ \E book_payload \in BookPayloads :
            BooksPost(SeqProc, book_payload, BookDetails(book_payload.ISBN))
    \/ IncrementIdFind(SeqProc)
    \/ IncrementIdUpdate(SeqProc)
    \/ AddBook(SeqProc)
    \/ AddBookRating(SeqProc)
    \/ Quiet(SeqLoanProc) /\ \E book_id \in PathIds : BookDelete(SeqProc, book_id)
    \/ DeleteBookGet(SeqProc)
    \/ DeleteBookDeleteOne(SeqProc)
    \/ DeleteBookRatingDeleteOne(SeqProc)
    \/ DeleteBookRating(SeqProc)
    \/ ClubDown /\ LoanStartupFind(SeqLoanProc)
    \/ LoanStartupUpsert(SeqLoanProc)
    \/ Quiet(SeqProc) /\ \E loan_payload \in LoanPayloads : LoansPost(SeqLoanProc, loan_payload)
    \/ LoanCountOfMember(SeqLoanProc)
    \/ \E reachable \in BOOLEAN : CheckIfInLibrary(SeqLoanProc, reachable)
    \/ LoanIncrementIdFind(SeqLoanProc)
    \/ LoanIncrementIdUpdate(SeqLoanProc)
    \/ AddLoan(SeqLoanProc)
    \/ Quiet(SeqProc) /\ \E loan_id \in LoanPathIds : LoanDelete(SeqLoanProc, loan_id)
    \/ DeleteLoan(SeqLoanProc)
    \/ PersistentDown /\ BookClubStart(ClubProc)
    \/ ClubCreate(ClubProc)
    \/ ClubDelete(ClubProc)
SpecIds == Init /\ [][NextIds]_vars

\* The catalog under insertions, updates and deletions, one request at a time.
NextCatalog == Startup(SeqProc) \/ Create(SeqProc) \/ Put(SeqProc) \/ Delete(SeqProc)
SpecCatalog == Init /\ [][NextCatalog]_vars

\* Concurrent creations: any interleaving of the workers' steps.
NextAlloc == \E p \in Procs : Startup(p) \/ Create(p)
SpecAlloc == Init /\ [][NextAlloc]_vars

\* Service (re)starts while creations run.
NextStart == \E p \in Procs : Startup(p) \/ Restart(p) \/ Create(p)
SpecStart == Init /\ [][NextStart]_vars

\* Concurrent creations and deletions of books.
NextBook == \E p \in Procs : Startup(p) \/ Create(p) \/ Delete(p)
SpecBook == Init /\ [][NextBook]_vars

\* The store after the service started and one POST /books was answered 201:
\* book 1 with its empty rating; every worker idle.
InitRate ==
    /\ book_collection = <<[_id |-> 0, highest_object_id |-> 1],
                           NewBook(1, [title |-> "Dune", ISBN |-> "9780134685991",
                                       genre |-> "Fiction"])>>
    /\ rating_collection = <<NewRating(1, "Dune")>>
    /\ loan_collection = <<>>
    /\ book_club = None
    /\ overlapped = FALSE
    /\ pc = [p \in Workers |-> IF p \in Procs THEN "idle" ELSE "down"]
    /\ req = [p \in Workers |-> NoReq]
    /\ loc = [p \in Workers |-> NoLoc]
    /\ resp = [p \in Workers |-> NoResp]
    /\ allocated = [books |-> <<1>>, loans |-> <<>>, club |-> <<>>]
    /\ appended = EmptyBag

\* The stores after three POST /books, with both services started.
InitLoan ==
    /\ book_collection = <<[_id |-> 0, highest_object_id |-> 3],
                           NewBook(1, [title |-> "Dune", ISBN |-> "9780134685991",
                                       genre |-> "Fiction"]),
                           NewBook(2, [title |-> "Dune", ISBN |-> "9780441013593",
                                       genre |-> "Fiction"]),
                           NewBook(3, [title |-> "Dune", ISBN |-> "9780262033848",
                                       genre |-> "Fiction"])>>
    /\ rating_collection = <<NewRating(1, "Dune"), NewRating(2, "Dune"), NewRating(3, "Dune")>>
    /\ loan_collection = <<[_id |-> 0, highest_object_id |-> 0]>>
    /\ book_club = None
    /\ overlapped = FALSE
    /\ pc = [p \in Workers |-> IF p = ClubProc THEN "down" ELSE "idle"]
    /\ req = [p \in Workers |-> NoReq]
    /\ loc = [p \in Workers |-> NoLoc]
    /\ resp = [p \in Workers |-> NoResp]
    /\ allocated = [books |-> <<1, 2, 3>>, loans |-> <<>>, club |-> <<>>]
    /\ appended = EmptyBag

\* The payloads of the concurrent requests: the ISBNs of the three books and
\* one of no book, all with a valid date.
RacePayloads ==
    {[memberName |-> "Ann", ISBN |-> i, loanDate |-> "2024-02-29"] :
        i \in ISBNs \cup {"9780262033848", "9780131103627"}}

\* The loan that is returned while others are created.
RaceReturns == {"1"}

\* Concurrent creations of loans over that catalog, and returns of a loan by
\* one worker.
NextLoan ==
    \E p \in LoanProcs :
        \/ \E loan_payload \in RacePayloads : LoansPost(p, loan_payload)
        \/ LoanCountOfMember(p)
        \/ CheckIfInLibrary(p, TRUE)
        \/ LoanIncrementIdFind(p)
        \/ LoanIncrementIdUpdate(p)
        \/ AddLoan(p)
        \/ p = SeqLoanProc /\ \E loan_id \in RaceReturns : LoanDelete(p, loan_id)
        \/ DeleteLoan(p)
SpecLoan == InitLoan /\ [][NextLoan]_vars

\* Loan requests for the ISBNs of the catalog, each with a valid date.
LendPayloads ==
    {[memberName |-> "Ann", ISBN |-> i, loanDate |-> "2024-02-29"] : i \in ISBNs}

\* Concurrent creations of books, and loans requested while no book request is
\* in progress.
NextLend ==
    \/ \E p \in Procs : Startup(p) \/ Create(p)
    \/ LoanStartup(SeqLoanProc)
    \/ (\A w \in Procs : Quiet(w)) /\ \E loan_payload \in LendPayloads :
            LoansPost(SeqLoanProc, loan_payload)
    \/ LoanCountOfMember(SeqLoanProc)
    \/ CheckIfInLibrary(SeqLoanProc, TRUE)
    \/ LoanIncrementIdFind(SeqLoanProc)
    \/ LoanIncrementIdUpdate(SeqLoanProc)
    \/ AddLoan(SeqLoanProc)
SpecLend == Init /\ [][NextLend]_vars

\* The catalogs GET /top is asked on: MaxTopBooks books, each with two or three
\* rating values and the average of its values. Four distinct averages occur
\* (5, 14/3, 4, 3); a book with the two values 5, 5 reaches 5 or 14/3 with its
\* third value.
TopValues == {<<5, 5>>, <<5, 5, 5>>, <<4, 5, 5>>, <<4, 4, 4>>, <<3, 3, 3>>}
TopBook(n) ==
    NewBook(n, [title |-> "Dune", ISBN |-> "978000000000" \o ToString(n), genre |-> "Fiction"])
TopRating(n, values) ==
    [NewRating(n, "Dune") EXCEPT !.values = values, !.average = Average(values)]

\* Either service after MaxTopBooks books were created and rated, one request
\* at a time; the other service is not running.
InitTop ==
    \E service \in {"persistent", "in-memory"} :
        \E values \in [1..MaxTopBooks -> TopValues] :
            /\ book_collection = IF service = "persistent"
                    THEN <<[_id |-> 0, highest_object_id |-> MaxTopBooks]>>
                            \o [n \in 1..MaxTopBooks |-> TopBook(n)]
                    ELSE <<>>
            /\ rating_collection = IF service = "persistent"
                    THEN [n \in 1..MaxTopBooks |-> TopRating(n, values[n])]
                    ELSE <<>>
            /\ book_club = IF service = "persistent" THEN None
                    ELSE [books |-> [n \in 1..MaxTopBooks |-> DropId(TopBook(n))],
                          bookRatings |-> [n \in 1..MaxTopBooks |-> DropId(TopRating(n, values[n]))],
                          ID |-> MaxTopBooks]
            /\ pc = [p \in Workers |->
                        IF (service = "persistent" /\ p = SeqProc)
                            \/ (service = "in-memory" /\ p = ClubProc)
                        THEN "idle" ELSE "down"]
            /\ loan_collection = <<>>
            /\ overlapped = FALSE
            /\ req = [p \in Workers |-> NoReq]
            /\ loc = [p \in Workers |-> NoLoc]
            /\ resp = [p \in Workers |-> NoResp]
            /\ allocated = [books |-> <<>>, loans |-> <<>>, club |-> <<>>]
            /\ appended = EmptyBag

\* GET /top and POST /ratings/{id}/values, one request at a time; values are
\* sent to the books that are not ranked yet.
NextTop ==
    \/ TopGet(SeqProc)
    \/ \E book_id \in TopPathIds, rating_payload \in RatingPayloads :
            /\ Idle(SeqProc)
            /\ Len(get_book_rating(rating_collection, book_id).values) < MinValuesForTop
            /\ RatingPost(SeqProc, book_id, rating_payload)
    \/ AddRatingValue(SeqProc)
    \/ CalculateRatingAverageFind(SeqProc)
    \/ CalculateRatingAverageSet(SeqProc)
    \/ ClubTopGet(ClubProc)
    \/ \E book_id \in TopPathIds, rating_payload \in RatingPayloads :
            /\ Idle(ClubProc)
            /\ Len(BookClub_get_book_rating(book_club, book_id).values) < MinValuesForTop
            /\ ClubRatingPost(ClubProc, book_id, rating_payload)
SpecTop == InitTop /\ [][NextTop]_vars

\* Creations and deletions of books, one request at a time, with every outcome
\* of the lookups: an exception of requests.get, no data, no summary (in-memory
\* service), or the details.
NextEnrich ==
    \/ ClubDown /\ StartupFind(SeqProc)
    \/ StartupUpsert(SeqProc)
    \/ \E book_payload \in BookPayloads :
            \E book_details \in {Unavailable, None, BookDetails(book_payload.ISBN)} :
                BooksPost(SeqProc, book_payload, book_details)
    \/ IncrementIdFind(SeqProc)
    \/ IncrementIdUpdate(SeqProc)
    \/ AddBook(SeqProc)
    \/ AddBookRating(SeqProc)
    \/ Delete(SeqProc)
    \/ PersistentDown /\ BookClubStart(ClubProc)
    \/ \E book_payload \in BookPayloads :
            \E book_details \in {Unavailable, None, NoSummary, BookDetails(book_payload.ISBN)} :
                ClubBooksPost(ClubProc, book_payload, book_details)
    \/ ClubDelete(ClubProc)
SpecEnrich == Init /\ [][NextEnrich]_vars

\* Over the catalog of InitLoan: loans are created and returned while books
\* are updated and deleted, one request at a time.
NextKeep ==
    \/ Quiet(SeqLoanProc) /\ \E book_id \in PathIds, book_payload \in PutPayloads :
            BookPut(SeqProc, book_id, book_payload)
    \/ UpdateBookGet(SeqProc)
    \/ UpdateBookUpdateOne(SeqProc)
    \/ Quiet(SeqLoanProc) /\ \E book_id \in PathIds : BookDelete(SeqProc, book_id)
    \/ DeleteBookGet(SeqProc)
    \/ DeleteBookDeleteOne(SeqProc)
    \/ DeleteBookRatingDeleteOne(SeqProc)
    \/ DeleteBookRating(SeqProc)
    \/ Quiet(SeqProc) /\ \E loan_payload \in LendPayloads : LoansPost(SeqLoanProc, loan_payload)
    \/ LoanCountOfMember(SeqLoanProc)
    \/ CheckIfInLibrary(SeqLoanProc, TRUE)
    \/ LoanIncrementIdFind(SeqLoanProc)
    \/ LoanIncrementIdUpdate(SeqLoanProc)
    \/ AddLoan(SeqLoanProc)
    \/ Quiet(SeqProc) /\ \E loan_id \in LoanPathIds : LoanDelete(SeqLoanProc, loan_id)
    \/ DeleteLoan(SeqLoanProc)
SpecKeep == InitLoan /\ [][NextKeep]_vars

\* POST /ratings/{id}/values with payloads of every kind, one request at a
\* time, on the store of InitRate.
NextValue ==
    \/ \E book_id \in PathIds, rating_payload \in ValuePayloads :
            RatingPost(SeqProc, book_id, rating_payload)
    \/ AddRatingValue(SeqProc)
    \/ CalculateRatingAverageFind(SeqProc)
    \/ CalculateRatingAverageSet(SeqProc)
SpecValue == InitRate /\ [][NextValue]_vars

\* Overlapping creations in either service of the persistent deployment: two
\* book workers from an empty store while the loan service is not started, or
\* two loan workers over a stored catalog.
LoanServiceDown == loan_collection = <<>>

InitDup == Init \/ InitLoan

NextDup ==
    \/ \E p \in Procs : StartupFind(p)
    \/ \E p \in Procs : StartupUpsert(p)
    \/ \E p \in Procs : LoanServiceDown /\ \E book_payload \in BookPayloads :
            BooksPost(p, book_payload, BookDetails(book_payload.ISBN))
    \/ \E p \in Procs : IncrementIdFind(p)
    \/ \E p \in Procs : IncrementIdUpdate(p)
    \/ \E p \in Procs : AddBook(p)
    \/ \E p \in Procs : AddBookRating(p)
    \/ \E p \in LoanProcs : \E loan_payload \in RacePayloads : LoansPost(p, loan_payload)
    \/ \E p \in LoanProcs : LoanCountOfMember(p)
    \/ \E p \in LoanProcs : CheckIfInLibrary(p, TRUE)
    \/ \E p \in LoanProcs : LoanIncrementIdFind(p)
    \/ \E p \in LoanProcs : LoanIncrementIdUpdate(p)
    \/ \E p \in LoanProcs : AddLoan(p)
SpecDup == InitDup /\ [][NextDup]_vars

\* GET /top by one worker while the other creates and deletes books, over a
\* catalog whose book 1 is rated 5, 4, 5.
QueryProc == "w2"

InitQuery ==
    /\ book_collection = <<[_id |-> 0, highest_object_id |-> 1],
                           NewBook(1, [title |-> "Dune", ISBN |-> "9780134685991",
                                       genre |-> "Fiction"])>>
    /\ rating_collection = <<TopRating(1, <<5, 4, 5>>)>>
    /\ loan_collection = <<>>
    /\ book_club = None
    /\ overlapped = FALSE
    /\ pc = [p \in Workers |-> IF p \in Procs THEN "idle" ELSE "down"]
    /\ req = [p \in Workers |-> NoReq]
    /\ loc = [p \in Workers |-> NoLoc]
    /\ resp = [p \in Workers |-> NoResp]
    /\ allocated = [books |-> <<1>>, loans |-> <<>>, club |-> <<>>]
    /\ appended = EmptyBag

NextQuery ==
    \/ \E book_payload \in BookPayloads :
            BooksPost(SeqProc, book_payload, BookDetails(book_payload.ISBN))
    \/ IncrementIdFind(SeqProc)
    \/ IncrementIdUpdate(SeqProc)
    \/ AddBook(SeqProc)
    \/ AddBookRating(SeqProc)
    \/ \E book_id \in PathIds : BookDelete(SeqProc, book_id)
    \/ DeleteBookGet(SeqProc)
    \/ DeleteBookDeleteOne(SeqProc)
    \/ DeleteBookRatingDeleteOne(SeqProc)
    \/ DeleteBookRating(SeqProc)
    \/ TopGetBooks(QueryProc)
    \/ TopGetEligible(QueryProc)
    \/ TopGetSorted(QueryProc)
    \/ TopGetLoop(QueryProc)
    \/ TopGetLoopAppend(QueryProc)
    \/ TopGetLoopCurrent(QueryProc)
SpecQuery == InitQuery /\ [][NextQuery]_vars

\* Every operation with an identifier in its path, asked for the reserved
\* identifier 0, a negative one and a stored one, one request at a time, next
\* to the lists and to creations.
ReservedPathIds == {"-1", "0", "1"}

InitReserved ==
    /\ book_collection = <<[_id |-> 0, highest_object_id |-> 1],
                           NewBook(1, [title |-> "Dune", ISBN |-> "9780134685991",
                                       genre |-> "Fiction"])>>
    /\ rating_collection = <<NewRating(1, "Dune")>>
    /\ loan_collection = <<[_id |-> 0, highest_object_id |-> 0]>>
    /\ book_club = None
    /\ overlapped = FALSE
    /\ pc = [p \in Workers |-> IF p = ClubProc THEN "down" ELSE "idle"]
    /\ req = [p \in Workers |-> NoReq]
    /\ loc = [p \in Workers |-> NoLoc]
    /\ resp = [p \in Workers |-> NoResp]
    /\ allocated = [books |-> <<1>>, loans |-> <<>>, club |-> <<>>]
    /\ appended = EmptyBag

NextReserved ==
    \/ Quiet(SeqLoanProc) /\ \E book_payload \in BookPayloads :
            BooksPost(SeqProc, book_payload, BookDetails(book_payload.ISBN))
    \/ IncrementIdFind(SeqProc)
    \/ IncrementIdUpdate(SeqProc)
    \/ AddBook(SeqProc)
    \/ AddBookRating(SeqProc)
    \/ Quiet(SeqLoanProc) /\ \E book_id \in ReservedPathIds : SpecificBookGet(SeqProc, book_id)
    \/ Quiet(SeqLoanProc) /\ BooksList(SeqProc)
    \/ Quiet(SeqLoanProc) /\ \E book_id \in ReservedPathIds, book_payload \in PutPayloads :
            BookPut(SeqProc, book_id, book_payload)
    \/ UpdateBookGet(SeqProc)
    \/ UpdateBookUpdateOne(SeqProc)
    \/ Quiet(SeqLoanProc) /\ \E book_id \in ReservedPathIds : BookDelete(SeqProc, book_id)
    \/ DeleteBookGet(SeqProc)
    \/ DeleteBookDeleteOne(SeqProc)
    \/ DeleteBookRatingDeleteOne(SeqProc)
    \/ DeleteBookRating(SeqProc)
    \/ Quiet(SeqProc) /\ \E loan_payload \in LendPayloads : LoansPost(SeqLoanProc, loan_payload)
    \/ LoanCountOfMember(SeqLoanProc)
    \/ CheckIfInLibrary(SeqLoanProc, TRUE)
    \/ LoanIncrementIdFind(SeqLoanProc)
    \/ LoanIncrementIdUpdate(SeqLoanProc)
    \/ AddLoan(SeqLoanProc)
    \/ Quiet(SeqProc) /\ \E loan_id \in ReservedPathIds : SpecificLoanGet(SeqLoanProc, loan_id)
    \/ Quiet(SeqProc) /\ LoansList(SeqLoanProc)
    \/ Quiet(SeqProc) /\ \E loan_id \in ReservedPathIds : LoanDelete(SeqLoanProc, loan_id)
    \/ DeleteLoan(SeqLoanProc)
SpecReserved == InitReserved /\ [][NextReserved]_vars

\* Concurrent appends to ratings, and deletions of their books.
NextRate == \E p \in Procs : Rate(p) \/ Delete(p)
SpecRate == InitRate /\ [][NextRate]_vars

\* ------------------------------------------------------------ properties
Range(seq) == {seq[i] : i \in 1..Len(seq)}

CounterExists == find_one(book_collection, current_key_doc_identifier) # None
Counter == HighestObjectId(book_collection)

\* C1: the identifiers returned by N allocations, however their counter reads
\* and writes interleave, are exactly 1..N: none twice, none skipped.
C1_AllocatedIsOneToN == Range(allocated.books) = 1..Len(allocated.books)

\* C2: the persisted counter never decreases, and the write of every
\* allocation leaves it strictly greater than it was just before that write.
C2_CounterNeverDecreases ==
    [][(CounterExists /\ CounterExists') =>
            /\ Counter' >= Counter
            /\ \A p \in Procs :
                (pc[p] = "increment_id_update" /\ pc'[p] # pc[p]) => Counter' > Counter]_vars

\* C3: when requests do not overlap, in each store (books, loans, and the
\* in-memory service's books) the first identifier allocated is 1 and every
\* later one is strictly greater than all allocated before it, whatever was
\* deleted in between: the identifier of a deleted book or loan is never handed
\* out again.
C3_IdsStrictlyIncreaseFromOne ==
    \A store \in DOMAIN allocated :
        /\ allocated[store] # <<>> => allocated[store][1] = 1
        /\ \A i, j \in 1..Len(allocated[store]) : i < j => allocated[store][i] < allocated[store][j]

\* Book 1 and loan 1 were created and deleted, and the book and the loan
\* created after them were given 2.
C3_Witness ==
    /\ allocated.books = <<1, 2>>
    /\ allocated.loans = <<1, 2>>
    /\ get_book(book_collection, "1") = None /\ get_book(book_collection, "2") # None
    /\ get_loan(loan_collection, "1") = None /\ get_loan(loan_collection, "2") # None

\* C4: service start creates the counter document with 0 only when there is
\* none: however starts, restarts and allocations interleave, there is never
\* more than one counter document, there is one as soon as a worker has
\* started, and no step of a start changes a value the counter already holds.
CounterCount == Cardinality({i \in 1..Len(book_collection) : book_collection[i]._id = 0})

C4_StartKeepsOneCounter ==
    /\ [](/\ CounterCount <= 1
          /\ (\E p \in Procs : pc[p] \notin {"down", "startup_upsert"}) => CounterCount = 1)
    /\ [][\A p \in Procs :
            (pc[p] \in {"down", "startup_upsert"} /\ pc'[p] # pc[p] /\ CounterExists)
                => (CounterExists' /\ Counter' = Counter)]_vars

\* A worker's start ran its upsert on a counter that was already there, and
\* the counter holds a value above 0.
C4_Witness ==
    \E p \in Procs :
        /\ Idle(p) /\ req[p] = NoReq /\ loc[p].matched = 1
        /\ Counter > 0

\* average = sum(values) / len(values), stated without the division; 0 for no values.
AverageIsMean(rating) ==
    /\ rating.average.den > 0
    /\ rating.average.num * Len(rating.values) = Sum(rating.values) * rating.average.den
    /\ rating.values = <<>> => rating.average = Zero

\* C5: with appends executed one at a time, after every append the stored
\* average of every rating is the mean of its stored values, and a rating
\* without values has average 0.
C5_AverageIsMeanSequential ==
    /\ Idle(SeqProc) =>
            \A i \in 1..Len(rating_collection) : AverageIsMean(rating_collection[i])
    /\ Idle(ClubProc) =>
            \A i \in 1..Len(book_club.bookRatings) : AverageIsMean(book_club.bookRatings[i])

\* An append just answered 201 on a rating holding different values.
C5_Witness ==
    /\ Idle(SeqProc) /\ req[SeqProc].op = "post_value" /\ resp[SeqProc].status = 201
    /\ get_book_rating(rating_collection, req[SeqProc].book_id) # None
    /\ get_book_rating(rating_collection, req[SeqProc].book_id).values = <<5, 4, 5>>

\* The number of times v occurs in values.
Occurrences(values, v) == Cardinality({i \in 1..Len(values) : values[i] = v})

\* C6: when appends to one rating run concurrently, no value is lost: once all
\* requests are answered, a stored rating holds every value of every append
\* that answered 201 exactly as many times as it was appended.
C6_NoAppendLost ==
    Quiescent =>
        \A i \in 1..Len(rating_collection) : \A v \in 1..5 :
            Occurrences(rating_collection[i].values, v)
                = CopiesIn(<<rating_collection[i].id, v>>, appended)

\* Two appends to rating 1 overlap: both have written, neither has answered.
C6_Witness ==
    /\ \A p \in Procs : pc[p] = "calculate_rating_average" /\ req[p].book_id = "1"
    /\ get_book_rating(rating_collection, "1") # None
    /\ Len(get_book_rating(rating_collection, "1").values) = 2

\* C7: the append and the recomputation of the average are one atomic update:
\* however appends to one rating interleave, once all are answered the stored
\* average is the mean of the stored values.
C7_AverageIsMeanConcurrent ==
    Quiescent =>
        \A i \in 1..Len(rating_collection) : AverageIsMean(rating_collection[i])

\* C8: an append that finds no rating, at its existence check or at its write
\* (the book deleted in between), ends in 404 and creates no rating.
C8_AppendWithoutRatingIsNotFound ==
    \A p \in Procs :
        (/\ Idle(p) /\ req[p].op = "post_value"
         /\ resp[p].status \notin {0, 415, 422}
         /\ loc[p].matched = 0)
            => /\ resp[p].status = 404
               /\ get_book_rating(rating_collection, req[p].book_id) = None

\* C9: in every state a rating document i exists exactly when a book document
\* i exists.
C9_RatingIffBook ==
    \A i \in 1..(MaxId + 1) :
        (find_one(rating_collection, [_id |-> i]) # None)
            <=> (find_one(book_collection, [_id |-> i]) # None)

\* C11: after any sequence of insertions, updates (PUT) and deletions of
\* books, one request at a time, no two stored books have the same ISBN.
C11_IsbnUnique ==
    Idle(SeqProc) =>
        \A i, j \in 1..Len(get_books(book_collection)) :
            get_books(book_collection)[i].ISBN = get_books(book_collection)[j].ISBN => i = j

\* No two stored loans have the same ISBN.
OneLoanPerIsbn ==
    \A i, j \in 1..Len(get_loans(loan_collection)) :
        get_loans(loan_collection)[i].ISBN = get_loans(loan_collection)[j].ISBN => i = j

\* C12 as stated: in every reachable state of the loan store, also those
\* reached by overlapping loan-creation requests, no two loans have the same ISBN.
C12_OneLoanPerIsbnAlways == OneLoanPerIsbn

\* C12 amended: in every state reached without two loan-creation requests in
\* flight at once, no two loans have the same ISBN.
C12_OneLoanPerIsbnWithoutOverlap == ~overlapped => OneLoanPerIsbn

\* Without any overlap, a loan was returned and its ISBN is on loan again
\* under a new identifier, next to a second loan.
C12_Witness ==
    /\ ~overlapped
    /\ get_loan(loan_collection, "1") = None
    /\ Len(get_loans(loan_collection)) = 2
    /\ \E i \in 1..2 : get_loans(loan_collection)[i].ISBN = "9780134685991"
    /\ \E p \in LoanProcs : resp[p].status = 422 /\ resp[p].error = "This book is already on loan"

\* C13: in every reachable state of the loan store, also those reached by
\* overlapping loan-creation requests of one member, no member has more than
\* MaxLoansOfMember loans.
C13_MemberLoansAtMostTwo ==
    \A m \in Members : loan_count_of_member(loan_collection, m) <= MaxLoansOfMember

\* Worker p takes a step of a loan creation.
LoanCreationStep(p) ==
    /\ req'[p].op = "post_loan"
    /\ pc'[p] # pc[p] \/ resp'[p] # resp[p] \/ req'[p] # req[p]

\* What C14 names: the ISBN is on loan, or the member holds MaxLoansOfMember
\* loans, or the loan date is not a date of the calendar in YYYY-MM-DD.
MustBeRefused(loans, loan_payload) ==
    /\ DOMAIN loan_payload = {"memberName", "ISBN", "loanDate"}
    /\ \/ \E i \in 1..Len(get_loans(loans)) : get_loans(loans)[i].ISBN = loan_payload.ISBN
       \/ loan_count_of_member(loans, loan_payload.memberName) >= MaxLoansOfMember
       \/ ~(MatchesDatePattern(loan_payload.loanDate) /\ StrptimeAccepts(loan_payload.loanDate))

\* C14: with one request at a time, every step of a loan creation issued on a
\* store where the ISBN is on loan, or the member holds two loans, or with a
\* date that is no calendar date, leaves the loans and the loan counter as they
\* are, never reaches the catalog request, and ends in a 4xx response.
C14_RefusedWithoutEffect ==
    [][LoanCreationStep(SeqLoanProc)
            /\ MustBeRefused(loan_collection, req'[SeqLoanProc].payload)
        => /\ loan_collection' = loan_collection
           /\ pc'[SeqLoanProc] \in {"idle", "loan_count_of_member"}
           /\ pc'[SeqLoanProc] = "idle" => resp'[SeqLoanProc].status \in 400..499]_vars

\* Ann holds two loans and her request for a third ISBN was refused for it.
C14_Witness ==
    /\ Idle(SeqLoanProc) /\ req[SeqLoanProc].op = "post_loan"
    /\ resp[SeqLoanProc] = [status |-> 422, error |-> "Too many books on loan for Ann."]
    /\ loan_count_of_member(loan_collection, "Ann") = 2
    /\ HighestObjectId(loan_collection) = 2

\* The catalog's answer to the query by this ISBN names no book: it is not a
\* 200, or it is empty.
NoBookInAnswer(books, ISBN) ==
    \/ BooksGet(books, CatalogQuery(ISBN)).status # 200
    \/ JsonLen(BooksGet(books, CatalogQuery(ISBN))) = 0

\* C15: with one request at a time, a loan creation that passed validation and
\* to which the catalog answers with a non-200 status or an empty result ends
\* in 404, and no step of a creation up to and including the catalog request
\* changes the loans or the loan counter.
C15_NotInCatalogIsNotFound ==
    [][LoanCreationStep(SeqLoanProc) =>
        /\ (/\ pc[SeqLoanProc] = "check_if_in_library"
            /\ NoBookInAnswer(book_collection, req[SeqLoanProc].payload.ISBN)
            /\ resp'[SeqLoanProc] # [status |-> 500, error |-> "ConnectionError"])
                => /\ pc'[SeqLoanProc] = "idle"
                   /\ resp'[SeqLoanProc].status = 404
        /\ pc[SeqLoanProc] \in {"idle", "loan_count_of_member", "check_if_in_library"}
                => loan_collection' = loan_collection /\ allocated' = allocated]_vars

\* A loan of an ISBN no book of the catalog has was answered 404 while the
\* catalog holds two books and the loan store one loan.
C15_Witness ==
    /\ Idle(SeqLoanProc) /\ req[SeqLoanProc].op = "post_loan"
    /\ req[SeqLoanProc].payload.ISBN = "9780131103627"
    /\ resp[SeqLoanProc] = [status |-> 404, error |-> "book not found in the library"]
    /\ Len(get_books(book_collection)) = 2
    /\ Len(get_loans(loan_collection)) = 1

\* The five gates of section 4.5 on a payload and a loan store.
GatesPass(loans, loan_payload) ==
    /\ DOMAIN loan_payload = {"memberName", "ISBN", "loanDate"}
    /\ Len(loan_payload.ISBN) = 13
    /\ ~MustBeRefused(loans, loan_payload)

\* proposed -> validated -> checked against the catalog -> committed, or
\* aborted (idle) from any of them, as pairs of a worker's places.
LoanFlow ==
    {<<"idle", "idle">>, <<"idle", "loan_count_of_member">>,
     <<"loan_count_of_member", "idle">>, <<"loan_count_of_member", "check_if_in_library">>,
     <<"check_if_in_library", "idle">>, <<"check_if_in_library", "loan_increment_id_find">>,
     <<"loan_increment_id_find", "loan_increment_id_update">>,
     <<"loan_increment_id_update", "add_loan">>,
     <<"add_loan", "idle">>}

\* C16: every step of a loan creation moves along proposed, validated,
\* checked against the catalog, committed, or to aborted; a step that changes
\* the stored loans is the last one of a request answered 201, adds one loan,
\* and is taken on a store on which the payload passes the five gates and the
\* catalog's answer is a 200 that is not empty; a request answered otherwise
\* leaves the stored loans as they are.
C16_LoanFlowOrder ==
    [][LoanCreationStep(SeqLoanProc) =>
        /\ <<pc[SeqLoanProc], pc'[SeqLoanProc]>> \in LoanFlow
        /\ get_loans(loan_collection') # get_loans(loan_collection)
            => /\ pc[SeqLoanProc] = "add_loan" /\ pc'[SeqLoanProc] = "idle"
               /\ resp'[SeqLoanProc].status = 201
               /\ Len(get_loans(loan_collection')) = Len(get_loans(loan_collection)) + 1
               /\ GatesPass(loan_collection, req[SeqLoanProc].payload)
               /\ ~NoBookInAnswer(book_collection, req[SeqLoanProc].payload.ISBN)
        /\ (pc'[SeqLoanProc] = "idle" /\ resp'[SeqLoanProc].status # 201)
            => get_loans(loan_collection') = get_loans(loan_collection)]_vars

\* A second loan was just committed.
C16_Witness ==
    /\ Idle(SeqLoanProc) /\ req[SeqLoanProc].op = "post_loan"
    /\ resp[SeqLoanProc] = [status |-> 201, loanID |-> "2"]
    /\ get_loan(loan_collection, "2") # None
    /\ get_loan(loan_collection, "2").ISBN = req[SeqLoanProc].payload.ISBN
    /\ get_loan(loan_collection, "1") # None

\* The gates of section 4.5 a payload fails on a loan store, by their numbers.
FailedGates(loans, loan_payload) ==
    IF DOMAIN loan_payload # {"memberName", "ISBN", "loanDate"}
    THEN {1} \cup (IF "ISBN" \in DOMAIN loan_payload /\ Len(loan_payload.ISBN) # 13
                   THEN {2} ELSE {})
    ELSE (IF Len(loan_payload.ISBN) # 13 THEN {2} ELSE {})
         \cup (IF \E i \in 1..Len(get_loans(loans)) :
                    get_loans(loans)[i].ISBN = loan_payload.ISBN THEN {3} ELSE {})
         \cup (IF loan_count_of_member(loans, loan_payload.memberName) >= MaxLoansOfMember
               THEN {4} ELSE {})
         \cup (IF ~(MatchesDatePattern(loan_payload.loanDate)
                    /\ StrptimeAccepts(loan_payload.loanDate)) THEN {5} ELSE {})

\* The gate an error message of validate_loan_addition belongs to.
GateOfError(error) ==
    IF error = "Unprocessable content - check validity of fields" THEN 1
    ELSE IF error = "Invalid ISBN" THEN 2
    ELSE IF error = "This book is already on loan" THEN 3
    ELSE IF error \in {"Too many books on loan for " \o m \o "." : m \in Members} THEN 4
    ELSE IF error \in {"Invalid date format, should be YYYY-MM-DD", "Invalid date"} THEN 5
    ELSE 0

\* C17: with one request at a time, a loan creation whose payload fails gates
\* on the store it is issued on is answered 422 with the error of the lowest
\* of the gates it fails, in the order structural, ISBN length, ISBN on loan,
\* member's count, date; and it moves on to the catalog request only when it
\* fails none of the five.
C17_EarliestGateDecides ==
    [][LoanCreationStep(SeqLoanProc) =>
        /\ (pc'[SeqLoanProc] = "idle" /\ pc[SeqLoanProc] \in {"idle", "loan_count_of_member"}
                /\ FailedGates(loan_collection, req'[SeqLoanProc].payload) # {})
            => /\ resp'[SeqLoanProc].status = 422
               /\ \A g \in FailedGates(loan_collection, req'[SeqLoanProc].payload) :
                        GateOfError(resp'[SeqLoanProc].error) <= g
               /\ GateOfError(resp'[SeqLoanProc].error)
                        \in FailedGates(loan_collection, req'[SeqLoanProc].payload)
        /\ pc'[SeqLoanProc] \in {"check_if_in_library", "loan_increment_id_find",
                                 "loan_increment_id_update", "add_loan"}
            => /\ pc[SeqLoanProc] # "idle"
               /\ pc[SeqLoanProc] = "loan_count_of_member"
                    => FailedGates(loan_collection, req'[SeqLoanProc].payload) = {}]_vars

\* Ann holds two loans; her request for an ISBN that is on loan, with a day no
\* month has, fails gates 3, 4 and 5 and is answered with the error of gate 3.
C17_Witness ==
    /\ Idle(SeqLoanProc) /\ req[SeqLoanProc].op = "post_loan"
    /\ DOMAIN req[SeqLoanProc].payload = {"memberName", "ISBN", "loanDate"}
    /\ FailedGates(loan_collection, req[SeqLoanProc].payload) = {3, 4, 5}
    /\ resp[SeqLoanProc] = [status |-> 422, error |-> "This book is already on loan"]

\* C18: a loan request that passed the five gates and whose catalog query
\* by ISBN was answered 200 with one or more books ends with 201 and a loan
\* record under the identifier it allocated, whose bookID and title are those
\* of a catalog book with that ISBN.
C18_CatalogBookIsCaptured ==
    [][(pc[SeqLoanProc] = "add_loan" /\ pc'[SeqLoanProc] = "idle") =>
        /\ resp'[SeqLoanProc] = [status |-> 201, loanID |-> Str(loc[SeqLoanProc].current_key)]
        /\ get_loan(loan_collection, Str(loc[SeqLoanProc].current_key)) = None
        /\ get_loan(loan_collection', Str(loc[SeqLoanProc].current_key)) # None
        /\ \E i \in 1..Len(get_books(book_collection)) :
                /\ get_books(book_collection)[i].ISBN = req[SeqLoanProc].payload.ISBN
                /\ get_loan(loan_collection', Str(loc[SeqLoanProc].current_key)).bookID
                        = get_books(book_collection)[i].id
                /\ get_loan(loan_collection', Str(loc[SeqLoanProc].current_key)).title
                        = get_books(book_collection)[i].title]_vars

\* The documents of a collection other than the one with this _id, and the
\* items of a list of the in-memory service other than those with this id.
Others(coll, n) == SelectSeq(coll, LAMBDA doc : doc._id # n)
ClubOthers(items, book_id) == SelectSeq(items, LAMBDA item : item.id # book_id)

\* The identifiers in the output of /top.
TopIds(top) == {top.body[i].id : i \in 1..Len(top.body)}

\* C10: once DELETE /books/{id} of an existing book has answered 200, the book
\* is returned neither by get_book nor by get_books, its rating is gone and it
\* is not in the output of /top; and no step of the deletion touches another
\* book or another rating. The same holds of the in-memory service.
C10_DeleteRemovesBookAndRating ==
    /\ []((Idle(SeqProc) /\ req[SeqProc].op = "delete_book" /\ resp[SeqProc].status = 200) =>
            /\ get_book(book_collection, req[SeqProc].book_id) = None
            /\ \A i \in 1..Len(get_books(book_collection)) :
                    get_books(book_collection)[i].id # req[SeqProc].book_id
            /\ get_book_rating(rating_collection, req[SeqProc].book_id) = None
            /\ TopBooksGet(book_collection, rating_collection).status = 200
            /\ req[SeqProc].book_id \notin TopIds(TopBooksGet(book_collection, rating_collection)))
    /\ [](( req[ClubProc].op = "delete_book" /\ resp[ClubProc].status = 200) =>
            /\ BookClub_get_book(book_club, req[ClubProc].book_id) = None
            /\ \A i \in 1..Len(book_club.books) : book_club.books[i].id # req[ClubProc].book_id
            /\ BookClub_get_book_rating(book_club, req[ClubProc].book_id) = None
            /\ ClubTopBooksGet(book_club).status = 200
            /\ req[ClubProc].book_id \notin TopIds(ClubTopBooksGet(book_club)))
    /\ [][req'[SeqProc].op = "delete_book" =>
            /\ Others(book_collection', IntOf(req'[SeqProc].book_id))
                    = Others(book_collection, IntOf(req'[SeqProc].book_id))
            /\ Others(rating_collection', IntOf(req'[SeqProc].book_id))
                    = Others(rating_collection, IntOf(req'[SeqProc].book_id))]_vars
    /\ [][req'[ClubProc].op = "delete_book" =>
            /\ ClubOthers(book_club'.books, req'[ClubProc].book_id)
                    = ClubOthers(book_club.books, req'[ClubProc].book_id)
            /\ ClubOthers(book_club'.bookRatings, req'[ClubProc].book_id)
                    = ClubOthers(book_club.bookRatings, req'[ClubProc].book_id)]_vars

\* Book 1 was just deleted; book 2, rated 5, 4, 5, is still there and is the
\* output of /top.
C10_Witness ==
    /\ Idle(SeqProc) /\ req[SeqProc] = [op |-> "delete_book", book_id |-> "1"]
    /\ resp[SeqProc].status = 200
    /\ get_book(book_collection, "2") # None
    /\ TopBooksGet(book_collection, rating_collection).body
            = <<[id |-> "2", title |-> "Dune", average |-> [num |-> 14, den |-> 3]]>>

\* The averages of the books with three values or more.
RankedAverages(books, ratings) ==
    {get_book_rating(ratings, get_books(books)[i].id).average :
        i \in {j \in 1..Len(get_books(books)) :
                    Len(get_book_rating(ratings, get_books(books)[j].id).values) >= 3}}

\* The book has three values or more and fewer than three of the ranked
\* averages are higher than its own.
AmongThreeHighest(books, ratings, book_id) ==
    /\ Len(get_book_rating(ratings, book_id).values) >= 3
    /\ Cardinality({a \in RankedAverages(books, ratings) :
                        AvgLess(get_book_rating(ratings, book_id).average, a)}) < 3

\* Worker p asked GET /top last, on the store as it is: no book of the output
\* has fewer than three values.
NoFewValuesInTop(p, books, ratings) ==
    req[p].op = "get_top" =>
        /\ resp[p].status = 200
        /\ \A i \in 1..Len(resp[p].body) :
                Len(get_book_rating(ratings, resp[p].body[i].id).values) >= 3

\* Worker p's last request appended the third value of a book, and p now asks
\* GET /top: the book is in the output if its average is among the three
\* highest of the ranked books.
ThirdValueRanks(p, books, ratings) ==
    (/\ req[p].op = "post_value" /\ Idle(p) /\ resp[p].status \in {200, 201}
     /\ req'[p].op = "get_top"
     /\ Len(get_book_rating(ratings, req[p].book_id).values) = 3
     /\ AmongThreeHighest(books, ratings, req[p].book_id))
        => req[p].book_id \in TopIds(resp'[p])

TopHoldsThreeHighest(p, books, ratings) ==
    req[p].op = "get_top" =>
        \A i \in 1..Len(get_books(books)) :
            AmongThreeHighest(books, ratings, get_books(books)[i].id)
                => get_books(books)[i].id \in TopIds(resp[p])

\* C20: the output of GET /top holds every book with 3 values or more whose
\* average is one of the three highest distinct averages of such books, all
\* the books tied at the third of them included, however many they are; in
\* the persistent service and in the in-memory one.
C20_TiesAreNeverSplit ==
    /\ TopHoldsThreeHighest(SeqProc, book_collection, rating_collection)
    /\ book_club # None =>
            TopHoldsThreeHighest(ClubProc, Keyed(book_club.books), Keyed(book_club.bookRatings))

\* An output of four books: three distinct averages, two books sharing the
\* third.
C20_Witness ==
    /\ req[SeqProc].op = "get_top"
    /\ Len(resp[SeqProc].body) = 4
    /\ Cardinality({resp[SeqProc].body[i].average : i \in 1..4}) = 3
    /\ resp[SeqProc].body[3].average = resp[SeqProc].body[4].average

\* The errors of validate_book_addition.
BookValidationErrors ==
    {"Unprocessable content - check validity of fields", "Invalid ISBN", "Invalid genre",
     "A book with this ISBN already exists", "Unsupported media type"}

TopIsOrderedAndCut(p, books, ratings) ==
    req[p].op = "get_top" =>
        /\ \A i \in 1..Len(resp[p].body) : \A j \in (i + 1)..Len(resp[p].body) :
                ~AvgLess(resp[p].body[i].average, resp[p].body[j].average)
        /\ Cardinality({resp[p].body[i].average : i \in 1..Len(resp[p].body)}) <= 3
        /\ \A i \in 1..Len(resp[p].body) :
                /\ resp[p].body[i].average = get_book_rating(ratings, resp[p].body[i].id).average
                /\ AmongThreeHighest(books, ratings, resp[p].body[i].id)
        /\ Cardinality(RankedAverages(books, ratings)) < 3 =>
                \A i \in 1..Len(get_books(books)) :
                    Len(get_book_rating(ratings, get_books(books)[i].id).values) >= 3
                        => get_books(books)[i].id \in TopIds(resp[p])

\* C22: the output of GET /top is ordered by average descending and holds at
\* most 3 distinct averages; no book whose average is below the third highest
\* distinct average of the books with 3 values or more is in it, and when
\* there are fewer than 3 distinct averages every such book is in it.
C22_TopIsOrderedAndCut ==
    /\ TopIsOrderedAndCut(SeqProc, book_collection, rating_collection)
    /\ book_club # None =>
            TopIsOrderedAndCut(ClubProc, Keyed(book_club.books), Keyed(book_club.bookRatings))

\* Four books with four distinct averages, stored in ascending order of
\* average: the output holds the last three, the highest first.
C22_Witness ==
    /\ req[SeqProc].op = "get_top"
    /\ Cardinality(RankedAverages(book_collection, rating_collection)) = 4
    /\ Len(resp[SeqProc].body) = 3
    /\ resp[SeqProc].body[1].id = "4" /\ resp[SeqProc].body[3].id = "2"
    /\ "1" \notin TopIds(resp[SeqProc])

\* A valid request of the member of a loan for the ISBN of the loan.
SameLoanAgain(loan) ==
    [memberName |-> loan.memberName, ISBN |-> loan.ISBN, loanDate |-> "2024-02-29"]

\* C23: with one request at a time, the step of DELETE /loans/{id} that
\* answers 200 removes exactly that loan, after which a valid request of the
\* same member for the same ISBN fails neither the ISBN-on-loan gate nor the
\* member's-count gate; a DELETE of an id with no loan answers 404 and leaves
\* the loans as they were; and a loan request is refused for an ISBN on loan or
\* for the member's count only when the loans stored at that time say so.
C23_ReturnFreesIsbnAndMember ==
    [][/\ (pc[SeqLoanProc] = "delete_loan" /\ pc'[SeqLoanProc] = "idle") =>
            /\ resp'[SeqLoanProc].status = 200
            /\ get_loan(loan_collection, req[SeqLoanProc].loan_id) # None
            /\ get_loan(loan_collection', req[SeqLoanProc].loan_id) = None
            /\ Len(get_loans(loan_collection')) = Len(get_loans(loan_collection)) - 1
            /\ \A i \in 1..Len(get_loans(loan_collection')) :
                    \E j \in 1..Len(get_loans(loan_collection)) :
                        get_loans(loan_collection')[i] = get_loans(loan_collection)[j]
            /\ FailedGates(loan_collection',
                           SameLoanAgain(get_loan(loan_collection, req[SeqLoanProc].loan_id)))
                    \cap {3, 4} = {}
       /\ (pc[SeqLoanProc] = "idle" /\ pc'[SeqLoanProc] = "idle"
                /\ <<req[SeqLoanProc], resp[SeqLoanProc]>>' # <<req[SeqLoanProc], resp[SeqLoanProc]>>
                /\ req'[SeqLoanProc].op = "delete_loan"
                /\ get_loan(loan_collection, req'[SeqLoanProc].loan_id) = None) =>
            /\ resp'[SeqLoanProc] = [status |-> 404, error |-> "Loan not found"]
            /\ loan_collection' = loan_collection
       /\ (LoanCreationStep(SeqLoanProc) /\ pc'[SeqLoanProc] = "idle"
                /\ pc[SeqLoanProc] \in {"idle", "loan_count_of_member"}
                /\ resp'[SeqLoanProc].status = 422
                /\ GateOfError(resp'[SeqLoanProc].error) \in {3, 4}) =>
            GateOfError(resp'[SeqLoanProc].error)
                \in FailedGates(loan_collection, req'[SeqLoanProc].payload)]_vars

\* Ann held loans 1 and 2, one for each ISBN of the catalog; loan 1 was
\* returned, and her next request, for the ISBN of loan 1, was committed as
\* loan 3.
C23_Witness ==
    /\ Idle(SeqLoanProc) /\ req[SeqLoanProc].op = "post_loan"
    /\ resp[SeqLoanProc] = [status |-> 201, loanID |-> "3"]
    /\ get_loan(loan_collection, "1") = None
    /\ get_loan(loan_collection, "2") # None
    /\ get_loan(loan_collection, "3") # None
    /\ get_loan(loan_collection, "3").memberName = get_loan(loan_collection, "2").memberName
    /\ get_loan(loan_collection, "3").ISBN # get_loan(loan_collection, "2").ISBN

\* C24: a step that changes the books or the ratings leaves every loan record
\* as it is, and a loan that stays stored keeps its bookID and its title: the
\* update or the deletion of a book does not reach the loans that reference it.
C24_LoanKeepsBookIdAndTitle ==
    [][/\ (book_collection' # book_collection \/ rating_collection' # rating_collection)
            => loan_collection' = loan_collection
       /\ \A i \in 1..Len(get_loans(loan_collection)) :
            get_loan(loan_collection', get_loans(loan_collection)[i].loanID) # None
                => get_loan(loan_collection', get_loans(loan_collection)[i].loanID)
                        = get_loans(loan_collection)[i]]_vars

\* Loan 1 references book 1, which was deleted; loan 2 references book 2 under
\* the title it had when it was lent, and the book is now called "Emma".
C24_Witness ==
    /\ get_loan(loan_collection, "1") # None
    /\ get_loan(loan_collection, "1").bookID = "1"
    /\ get_book(book_collection, "1") = None
    /\ get_loan(loan_collection, "2") # None
    /\ get_loan(loan_collection, "2").bookID = "2"
    /\ get_loan(loan_collection, "2").title = "Dune"
    /\ get_book(book_collection, "2") # None
    /\ get_book(book_collection, "2").title = "Emma"

\* The fields PUT /books/{id} replaces.
ReplaceableFields == {"title", "ISBN", "genre", "authors", "publisher", "publishedDate"}

\* C25: with one request at a time, a PUT /books/{id} of an id with no book is
\* answered 404 and no step of it changes the store; the PUT of a stored book
\* writes in one step, which gives the replaceable fields of that book the
\* values of the payload and leaves the book's _id and id, the place of every
\* document, every other document of the books (the counter included) and all
\* the ratings as they were.
C25_UpdateTouchesOneBook ==
    [][(req'[SeqProc].op = "put_book"
            /\ <<pc[SeqProc], req[SeqProc], resp[SeqProc]>>' # <<pc[SeqProc], req[SeqProc], resp[SeqProc]>>) =>
        /\ rating_collection' = rating_collection
        /\ (pc[SeqProc] = "idle" /\ get_book(book_collection, req'[SeqProc].book_id) = None) =>
                /\ pc'[SeqProc] = "idle"
                /\ resp'[SeqProc] = [status |-> 404, error |-> "Book not found"]
        /\ pc[SeqProc] # "update_book_update_one" => book_collection' = book_collection
        /\ pc[SeqProc] = "update_book_update_one" =>
                /\ Len(book_collection') = Len(book_collection)
                /\ \A i \in 1..Len(book_collection) :
                        IF book_collection[i]._id # IntOf(req[SeqProc].book_id)
                        THEN book_collection'[i] = book_collection[i]
                        ELSE /\ DOMAIN book_collection'[i] = DOMAIN book_collection[i]
                             /\ book_collection'[i]._id = book_collection[i]._id
                             /\ book_collection'[i].id = book_collection[i].id
                             /\ \A f \in ReplaceableFields :
                                    book_collection'[i][f] = req[SeqProc].payload[f]]_vars

\* PUT /books/1 was answered 200 with two books stored: book 1 is "Emma", its
\* rating is still titled "Dune", book 2 is as it was and the counter is 2.
C25_Witness ==
    /\ Idle(SeqProc) /\ req[SeqProc].op = "put_book" /\ req[SeqProc].book_id = "1"
    /\ resp[SeqProc].status = 200
    /\ get_book(book_collection, "1") # None /\ get_book(book_collection, "1").title = "Emma"
    /\ get_book_rating(rating_collection, "1") # None
    /\ get_book_rating(rating_collection, "1").title = "Dune"
    /\ get_book(book_collection, "2") # None /\ get_book(book_collection, "2").title = "Dune"
    /\ HighestObjectId(book_collection) = 2

\* A stored value is a JSON integer from 1 to 5.
IsIntegerOneToFive(v) == v \notin {JsonTrue, JsonOther} /\ v \in 1..5

\* C26: every value stored in a rating is an integer in [1,5]; an append
\* whose value is outside the range, or whose payload is not exactly the one
\* field 'value', is answered 422 and leaves the ratings as they were.
C26_StoredValuesAreIntegers ==
    /\ [](\A r \in 1..Len(rating_collection) :
            \A i \in 1..Len(rating_collection[r].values) :
                IsIntegerOneToFive(rating_collection[r].values[i]))
    /\ [][(pc[SeqProc] = "idle" /\ req'[SeqProc].op = "post_value"
            /\ resp'[SeqProc].status = 422) => rating_collection' = rating_collection]_vars
    /\ [][(pc[SeqProc] = "idle" /\ req'[SeqProc].op = "post_value"
            /\ <<req[SeqProc], resp[SeqProc]>>' # <<req[SeqProc], resp[SeqProc]>>
            /\ get_book_rating(rating_collection, req'[SeqProc].book_id) # None
            /\ DOMAIN req'[SeqProc].payload # {}
            /\ (DOMAIN req'[SeqProc].payload # {"value"}
                    \/ ~IsIntegerOneToFive(req'[SeqProc].payload.value)))
                => (pc'[SeqProc] = "idle" /\ resp'[SeqProc].status = 422)]_vars

\* The identifiers of the documents of a collection, in stored order.
IdsOf(coll) == [i \in 1..Len(coll) |-> coll[i]._id]

UniqueIds(coll) == \A i, j \in 1..Len(coll) : coll[i]._id = coll[j]._id => i = j

\* C27: no collection ever holds two documents with one identifier, and an
\* insert whose identifier is already stored (another creation was given the
\* same identifier) fails with the collection left exactly as it was, while an
\* insert of a fresh identifier adds that one document and changes no other.
C27_NoTwoRecordsShareAnId ==
    /\ [](UniqueIds(book_collection) /\ UniqueIds(rating_collection)
            /\ UniqueIds(loan_collection))
    /\ [][\A p \in Procs : (pc[p] = "add_book" /\ pc'[p] # pc[p]) =>
            IF FirstMatch(book_collection, [_id |-> loc[p].current_key]) # 0
            THEN /\ book_collection' = book_collection
                 /\ rating_collection' = rating_collection
                 /\ pc'[p] = "idle" /\ resp'[p].status = 500
            ELSE /\ Len(book_collection') = Len(book_collection) + 1
                 /\ SubSeq(book_collection', 1, Len(book_collection)) = book_collection
                 /\ book_collection'[Len(book_collection')]._id = loc[p].current_key]_vars
    /\ [][\A p \in LoanProcs : (pc[p] = "add_loan" /\ pc'[p] # pc[p]) =>
            IF FirstMatch(loan_collection, [_id |-> loc[p].current_key]) # 0
            THEN /\ loan_collection' = loan_collection
                 /\ pc'[p] = "idle" /\ resp'[p].status = 500
            ELSE /\ Len(loan_collection') = Len(loan_collection) + 1
                 /\ SubSeq(loan_collection', 1, Len(loan_collection)) = loan_collection
                 /\ loan_collection'[Len(loan_collection')]._id = loc[p].current_key
                 /\ resp'[p].status = 201]_vars
    /\ [](\A p, q \in Workers :
            (p # q /\ Idle(p) /\ Idle(q) /\ resp[p].status = 201 /\ resp[q].status = 201
                /\ req[p].op = req[q].op /\ req[p].op \in {"post_book", "post_loan"})
                => IF req[p].op = "post_book" THEN resp[p].id # resp[q].id
                   ELSE resp[p].loanID # resp[q].loanID)

\* Two overlapping POST /books were both given identifier 1: the first is
\* answered 201 with its book stored beside the counter, the second failed on
\* the insert with DuplicateKeyError.
C27_Witness ==
    /\ \A p \in Procs : Idle(p) /\ req[p].op = "post_book"
    /\ allocated.books = <<1, 1>>
    /\ resp["w1"].status = 201 /\ resp["w1"].id = "1"
    /\ resp["w2"].status = 500 /\ resp["w2"].error = "DuplicateKeyError"
    /\ IdsOf(book_collection) = <<0, 1>>

\* The books whose rating the persistent Top-N query has still to read, the
\* next one first.
TopNextRead(p) ==
    IF pc[p] \in {"top_eligible", "top_sorted"} THEN loc[p].top.books
    ELSE IF pc[p] \in {"top_loop", "top_loop_append", "top_loop_current"}
    THEN loc[p].top.sorted_books
    ELSE <<>>

\* C28: a Top-N query that overlaps book creations and deletions always ends
\* with a 200 result: whenever it reads the rating of a book it took from the
\* catalog, that rating record exists.
C28_TopNeverMissesARating ==
    /\ [](\A p \in Procs :
            (Idle(p) /\ req[p].op = "get_top") => resp[p].status = 200)
    /\ [][\A p \in Procs :
            (TopNextRead(p) # <<>> /\ <<pc[p], loc[p]>>' # <<pc[p], loc[p]>>) =>
                get_book_rating(rating_collection, Head(TopNextRead(p)).id) # None]_vars

\* The operations that name one record by the identifier in their path.
PointOps == {"get_book", "put_book", "delete_book", "get_loan", "delete_loan"}

PathIdOf(r) == IF r.op \in {"get_loan", "delete_loan"} THEN r.loan_id ELSE r.book_id

CounterDoc(coll) == find_one(coll, current_key_doc_identifier)

\* The step is the counter write of an allocation by worker p.
AllocationWrite(p) ==
    /\ pc[p] \in {"increment_id_update", "loan_increment_id_update"}
    /\ pc'[p] # pc[p]

\* C29: the counter record at identifier 0 is out of reach of the public
\* operations: a point lookup, update or delete with an identifier <= 0 is
\* answered not found, no lookup or list returns the counter record, the
\* record is never deleted, and only the write of an allocation changes it.
C29_CounterRecordIsReserved ==
    /\ [](\A p \in Procs \cup LoanProcs :
            (Idle(p) /\ req[p].op \in PointOps /\ IntOf(PathIdOf(req[p])) <= 0)
                => resp[p].status = 404)
    /\ [](\A p \in Procs \cup LoanProcs :
            (Idle(p) /\ req[p].op \in {"get_book", "get_books", "get_loan", "get_loans"}
                /\ resp[p].status = 200)
                => \A i \in 1..Len(resp[p].body) :
                        /\ "highest_object_id" \notin DOMAIN resp[p].body[i]
                        /\ IntOf(IF req[p].op \in {"get_book", "get_books"}
                                 THEN resp[p].body[i].id ELSE resp[p].body[i].loanID) > 0)
    /\ [](CounterDoc(book_collection) # None /\ CounterDoc(loan_collection) # None)
    /\ [][CounterDoc(book_collection)' # CounterDoc(book_collection)
            => AllocationWrite(SeqProc)]_vars
    /\ [][CounterDoc(loan_collection)' # CounterDoc(loan_collection)
            => AllocationWrite(SeqLoanProc)]_vars

\* DELETE /loans/0 was answered 404 after one loan had been created: the loan
\* counter record is still stored and holds 1.
C29_Witness ==
    /\ Idle(SeqLoanProc) /\ req[SeqLoanProc].op = "delete_loan"
    /\ req[SeqLoanProc].loan_id = "0"
    /\ resp[SeqLoanProc].status = 404
    /\ CounterDoc(loan_collection) = [_id |-> 0, highest_object_id |-> 1]
    /\ get_loan(loan_collection, "1") # None
====
